---- MODULE Spec2Model ----
(***************************************************************************)
(* Kinetic Notation: the gesture-clip lifecycle (GestureClip) and the      *)
(* clip scheduler (ClipQueue) of js/core/modeManager.js, with the clip     *)
(* factories of js/movement/blendingEngine.js and the visual-mode table    *)
(* of the central configuration.                                           *)
(*                                                                         *)
(* Units.  Time is in integer milliseconds (the code uses float seconds;   *)
(* every time constant of the code is a whole number of milliseconds).     *)
(* Progress and phase values are fixed-point per-mille: 1000 stands for    *)
(* 1.0.  Quotients are floored, so a comparison "x/y >= k" against a       *)
(* per-mille constant k is exact.                                          *)
(***************************************************************************)
EXTENDS Integers, Sequences, FiniteSets, TLC

\* ───── bounds of the model ─────
MaxClips == 3
MaxClock == 700
StartClock == 2000
MaxClockClip == 3000
MaxBurst == 6
MaxClockBurst == 300
MaxClipsApi == 2
MaxLiveApi == 2
MaxClockApi == 700
MaxClockPoints == 33000
PathSteps == 4
MaxFns == 1
MaxClockLine == 12600
MaxClockFrames == 1400
MaxClockLive == 40000

\* ───── fixed-point unit ─────
PS == 1000

Min(a, b) == IF a < b THEN a ELSE b
Max(a, b) == IF a > b THEN a ELSE b

Range(s) == {s[i] : i \in DOMAIN s}

RECURSIVE Pow2(_)
Pow2(k) == IF k <= 0 THEN 1 ELSE 2 * Pow2(k - 1)

\* ───── trigonometry in fixed point ─────
\* sin(pi * x / 1000) * 1000 for x in 0..1000 (Bhaskara's rational
\* approximation, absolute error below 2 per-mille)
SinHalfTurn(x) ==
    LET u == x * (PS - x)
    IN  (16 * u) \div ((5 * PS * PS - 4 * u) \div PS)

\* sin(pi * x / 1000) * 1000 for any integer x
SinPi(x) ==
    LET r == x % (2 * PS)
    IN  IF r <= PS THEN SinHalfTurn(r) ELSE 0 - SinHalfTurn(r - PS)

\* cos(pi * x / 1000) * 1000
CosPi(x) == SinPi(x + PS \div 2)

\* 2^(-10 t) * 1000 for t = p / 1000 (exact at multiples of 0.1,
\* a quadratic through the end points in between)
Pow2Neg10(p) ==
    LET k == p \div 100
        f == p % 100
        q == PS - (6565 * f) \div 1000 + (1565 * f * f) \div 100000
    IN  q \div Pow2(k)

\* ───── easing (modeManager.js 157-176) ─────
\* a plausible slip: the second half of the curve is not mirrored ("1 -" lost)
easeInOutCubic_lostMirror(t) ==
    IF 2 * t < PS
    THEN (4 * t * t * t) \div (PS * PS)
    ELSE ((2 * PS - 2 * t) * (2 * PS - 2 * t) * (2 * PS - 2 * t)) \div (2 * PS * PS)

easeInOutCubic(t) ==
    IF 2 * t < PS
    THEN (4 * t * t * t) \div (PS * PS)
    ELSE PS - ((2 * PS - 2 * t) * (2 * PS - 2 * t) * (2 * PS - 2 * t)) \div (2 * PS * PS)

easeOutElastic(t) ==
    IF t = 0 \/ t = PS THEN t
    ELSE (Pow2Neg10(t) * SinPi(5 * (t - 100))) \div PS + PS

easeOutQuad(t) == PS - ((PS - t) * (PS - t)) \div PS

easeInOutSine(t) == (PS - CosPi(t)) \div 2

EasingNames == {"cubic", "elastic", "quad", "sine"}

\* EASING_MAP[name] || easeInOutCubic
EASING_MAP(name, t) ==
    CASE name = "cubic"   -> easeInOutCubic(t)
      [] name = "elastic" -> easeOutElastic(t)
      [] name = "quad"    -> easeOutQuad(t)
      [] name = "sine"    -> easeInOutSine(t)
      [] OTHER            -> easeInOutCubic(t)

\* ───── visual modes (Config.visualModes) ─────
ModeNames == {"jazz", "organic", "cinematic", "minimal"}

visualModes ==
    [ jazz      |-> [ maxConcurrent |-> 5, clipCooldown |-> 120,
                      sustainPingPong |-> TRUE,  sustainBlendTime |-> 400,
                      sustainEntryThreshold |-> 850,
                      durationMultiplier |-> 0,  easingOverride |-> "" ],
      organic   |-> [ maxConcurrent |-> 3, clipCooldown |-> 2000,
                      sustainPingPong |-> FALSE, sustainBlendTime |-> 1500,
                      sustainEntryThreshold |-> 920,
                      durationMultiplier |-> 35, easingOverride |-> "sine" ],
      cinematic |-> [ maxConcurrent |-> 3, clipCooldown |-> 300,
                      sustainPingPong |-> FALSE, sustainBlendTime |-> 800,
                      sustainEntryThreshold |-> 950,
                      durationMultiplier |-> 0,  easingOverride |-> "" ],
      minimal   |-> [ maxConcurrent |-> 2, clipCooldown |-> 250,
                      sustainPingPong |-> FALSE, sustainBlendTime |-> 0,
                      sustainEntryThreshold |-> 1100,
                      durationMultiplier |-> 0,  easingOverride |-> "" ] ]

defaultVisualMode == "jazz"

\* ───── templates (blendingEngine.js TEMPLATES): duration range, easing ─────
TEMPLATES ==
    [ whale   |-> [ minDur |-> 2000, maxDur |-> 4000, easing |-> "cubic" ],
      wing    |-> [ minDur |-> 400,  maxDur |-> 900,  easing |-> "cubic" ],
      scatter |-> [ minDur |-> 200,  maxDur |-> 600,  easing |-> "elastic" ],
      leaf    |-> [ minDur |-> 1000, maxDur |-> 3000, easing |-> "quad" ],
      ribbon  |-> [ minDur |-> 1500, maxDur |-> 3500, easing |-> "sine" ] ]

\* ───── clip states ─────
PENDING    == "pending"
ACTIVE     == "active"
SUSTAINING == "sustaining"
RELEASING  == "releasing"
COMPLETE   == "complete"

ClipState == {PENDING, ACTIVE, SUSTAINING, RELEASING, COMPLETE}

\* no MIDI binding (midiNoteKey = null), no clip, no mode stamp (mode = null)
NoKey  == <<>>
NoClip == [id |-> 0]
NoMode == "none"

\* the key `${channel}:${note}` of a note
NoteKey(channel, note) == <<channel, note>>

maxSustainCycles == 20
minReleaseDuration == 150
defaultSustainEntryThreshold == 850
defaultSustainBlendTime == 400
fadeDelay == 2000
maxFrameDt == 100
maxPoints == 2000
keptPoints == 1500

\* ───── GestureClip ─────

\* new GestureClip(opts): a Pending clip (modeManager.js 194-249)
GestureClip(id, duration, easingName, midiNoteKey) ==
    [ id                   |-> id,
      duration             |-> duration,
      easing               |-> IF easingName \in EasingNames THEN easingName ELSE "cubic",
      state                |-> PENDING,
      elapsed              |-> 0,
      progress             |-> 0,
      currentPathT         |-> 0,
      midiNoteKey          |-> midiNoteKey,
      midiHeld             |-> midiNoteKey # NoKey,
      sustainCycles        |-> 0,
      sustainStart         |-> 0,
      sustainEntryT        |-> 0,
      releaseStart         |-> 0,
      releaseProgressStart |-> 0,
      releaseDuration      |-> 400,
      completedAge         |-> 0,
      mode                 |-> NoMode,
      npoints              |-> 0 ]

\* new GestureClip(opts) with its origin member, this.origin =
\* { ...opts.origin }: the spread of an origin that is missing is an object
\* without x and y
GestureClipOf(id, opts) ==
    GestureClip(id, opts.duration, opts.easingName, opts.midiNoteKey)
    @@ [ origin |-> IF "origin" \in opts.missing
                    THEN [ x |-> 0, y |-> 0, nan |-> {"x", "y"} ]
                    ELSE [ x |-> opts.origin.x, y |-> opts.origin.y,
                           nan |-> {} ] ]

\* the value update() stores in both _currentPathT and easedProgress
easedProgress(c) == c.currentPathT

activate(c) ==
    [c EXCEPT !.state = ACTIVE, !.elapsed = 0, !.progress = 0, !.currentPathT = 0]

isComplete(c) == c.state = COMPLETE

\* a plausible slip: a looping clip is not counted as active
isActive_noSustain(c) == c.state \in {ACTIVE, RELEASING}

isActive(c) == c.state \in {ACTIVE, SUSTAINING, RELEASING}

isSustaining(c) == c.state = SUSTAINING

\* a plausible slip: the minimum release duration is not enforced
_beginRelease_noMin(c) ==
    [c EXCEPT !.state = RELEASING,
              !.releaseStart = c.elapsed,
              !.releaseProgressStart = c.currentPathT,
              !.releaseDuration = ((PS - c.currentPathT) * c.duration) \div (2 * PS)]

\* _beginRelease(): reads elapsed and _currentPathT as they are at the call
_beginRelease(c) ==
    [c EXCEPT !.state = RELEASING,
              !.releaseStart = c.elapsed,
              !.releaseProgressStart = c.currentPathT,
              !.releaseDuration =
                  Max(((PS - c.currentPathT) * c.duration) \div (2 * PS),
                      minReleaseDuration)]

\* a plausible slip: the threshold of the stamped mode is ignored
ModeThreshold_default(c) == defaultSustainEntryThreshold

\* (m && m.field) || default, for the two mode fields update() reads so
ModeThreshold(c) ==
    IF c.mode # NoMode /\ visualModes[c.mode].sustainEntryThreshold # 0
    THEN visualModes[c.mode].sustainEntryThreshold
    ELSE defaultSustainEntryThreshold

ModeBlendTime(c) ==
    IF c.mode # NoMode /\ visualModes[c.mode].sustainBlendTime # 0
    THEN visualModes[c.mode].sustainBlendTime
    ELSE defaultSustainBlendTime

ModePingPong(c) == c.mode # NoMode /\ visualModes[c.mode].sustainPingPong

\* a plausible slip: every clip follows the global flag
ShouldKeep_globalFlag(c, shouldSustain) == shouldSustain

\* the hold input of a clip: its own flag when note-bound, else the global one
ShouldKeep(c, shouldSustain) ==
    IF c.midiNoteKey # NoKey THEN c.midiHeld ELSE shouldSustain

\* update(), the RELEASING branch; e is the advanced elapsed time
UpdateReleasing(c, e) ==
    LET since == e - c.releaseStart
        frac  == Min((since * PS) \div c.releaseDuration, PS)
        eased == easeOutQuad(frac)
        pathT == c.releaseProgressStart
                   + ((PS - c.releaseProgressStart) * eased) \div PS
    IN  [c EXCEPT !.elapsed = e,
                  !.progress = pathT,
                  !.currentPathT = pathT,
                  !.state = IF frac >= PS THEN COMPLETE ELSE RELEASING]

\* a plausible slip: only the sustain-cycle cap ends a loop
SustainEnds_capOnly(c, shouldSustain, cycles) == cycles >= maxSustainCycles

\* a plausible slip: the sustain-cycle cap is not consulted
SustainEnds_noCap(c, shouldSustain, cycles) == ~ShouldKeep(c, shouldSustain)

\* update(), end of the SUSTAINING branch: the hold input dropped or the cap is hit
SustainEnds(c, shouldSustain, cycles) ==
    ~ShouldKeep(c, shouldSustain) \/ cycles >= maxSustainCycles

\* a plausible slip: a loop whose hold input dropped is ended at once instead
\* of being given its release tail
UpdateSustaining_hardEnd(c, e, shouldSustain) ==
    IF SustainEnds(c, shouldSustain, (10 * (e - c.sustainStart)) \div (12 * c.duration))
    THEN [c EXCEPT !.elapsed = e, !.state = COMPLETE, !.currentPathT = PS]
    ELSE [c EXCEPT !.elapsed = e]

\* update(), the SUSTAINING branch
UpdateSustaining(c, e, shouldSustain) ==
    LET since      == e - c.sustainStart
        \* since / halfCycle with halfCycle = duration * 0.6, per-mille
        cyclePos   == ((since * 10 * PS) \div (6 * c.duration)) % (2 * PS)
        phase0     == IF ModePingPong(c)
                      THEN (IF cyclePos > PS THEN 2 * PS - cyclePos ELSE cyclePos)
                      ELSE cyclePos % PS
        phase      == easeInOutSine(phase0)
        loopT      == 300 + (phase * 400) \div PS
        blend      == Min((since * PS) \div ModeBlendTime(c), PS)
        blendEased == easeOutQuad(blend)
        pathT      == (c.sustainEntryT * (PS - blendEased) + loopT * blendEased) \div PS
        cycles     == (since * 10) \div (12 * c.duration)
        c1         == [c EXCEPT !.elapsed = e, !.progress = pathT,
                                !.sustainCycles = cycles]
        c2         == IF SustainEnds(c, shouldSustain, cycles)
                      THEN _beginRelease(c1)
                      ELSE c1
    IN  [c2 EXCEPT !.currentPathT = pathT]

\* update(), the ACTIVE branch
UpdateActive(c, e, shouldSustain) ==
    LET progress  == Min((e * PS) \div c.duration, PS)
        pathT     == EASING_MAP(c.easing, progress)
        threshold == IF c.midiNoteKey # NoKey THEN ModeThreshold(c) ELSE PS
        c1        == [c EXCEPT !.elapsed = e, !.progress = progress,
                               !.currentPathT = pathT]
    IN  IF progress >= threshold
        THEN IF ShouldKeep(c, shouldSustain) /\ c.sustainCycles < maxSustainCycles
             THEN [c1 EXCEPT !.state = SUSTAINING,
                             !.sustainStart = e,
                             !.sustainEntryT = pathT]
             ELSE IF progress >= PS
                  THEN [c1 EXCEPT !.state = COMPLETE, !.currentPathT = PS]
                  ELSE c1
        ELSE c1

\* a plausible slip: the point buffer is never cut
PushPoint_noCap(c) == [c EXCEPT !.npoints = c.npoints + 1]

\* a plausible slip: the cut keeps as many points as the cap allows
PushPoint_keepCap(c) ==
    [c EXCEPT !.npoints = IF c.npoints + 1 > maxPoints THEN maxPoints
                          ELSE c.npoints + 1]

\* update(), the end: points.push(...), then the cap on the point buffer
\* (npoints is points.length; slice(-1500) keeps the newest 1500 points)
PushPoint(c) ==
    [c EXCEPT !.npoints = IF c.npoints + 1 > maxPoints THEN keptPoints
                          ELSE c.npoints + 1]

\* a plausible slip: the early return covers Complete only, a Pending clip runs
update_pendingRuns(c, dt, shouldSustain) ==
    IF c.state = COMPLETE THEN c
    ELSE PushPoint(IF c.state = RELEASING THEN UpdateReleasing(c, c.elapsed + dt)
                   ELSE IF c.state = SUSTAINING
                        THEN UpdateSustaining(c, c.elapsed + dt, shouldSustain)
                   ELSE UpdateActive(c, c.elapsed + dt, shouldSustain))

\* a plausible slip: the early return for Pending and Complete is missing
update_noGuard(c, dt, shouldSustain) ==
    PushPoint(IF c.state = RELEASING THEN UpdateReleasing(c, c.elapsed + dt)
              ELSE IF c.state = SUSTAINING
                   THEN UpdateSustaining(c, c.elapsed + dt, shouldSustain)
              ELSE UpdateActive(c, c.elapsed + dt, shouldSustain))

\* GestureClip.update(dt, shouldSustain)
update(c, dt, shouldSustain) ==
    IF c.state = PENDING \/ c.state = COMPLETE THEN c
    ELSE PushPoint(IF c.state = RELEASING THEN UpdateReleasing(c, c.elapsed + dt)
                   ELSE IF c.state = SUSTAINING
                        THEN UpdateSustaining(c, c.elapsed + dt, shouldSustain)
                   ELSE UpdateActive(c, c.elapsed + dt, shouldSustain))

\* a plausible slip: every released clip is completed at once, note-bound or not
release_hardKill(c) ==
    IF c.state = RELEASING \/ c.state = COMPLETE THEN c
    ELSE [c EXCEPT !.midiHeld = FALSE, !.state = COMPLETE]

\* a plausible slip: a note-bound clip that is still Active starts its tail at once
release_tailFromActive(c) ==
    IF c.state = RELEASING \/ c.state = COMPLETE THEN c
    ELSE LET c1 == [c EXCEPT !.midiHeld = FALSE]
         IN  IF c.midiNoteKey # NoKey THEN _beginRelease(c1)
             ELSE [c1 EXCEPT !.state = COMPLETE]

\* a plausible slip: clips without a note binding get the release tail as well
release_tailUnbound(c) ==
    IF c.state = RELEASING \/ c.state = COMPLETE THEN c
    ELSE LET c1 == [c EXCEPT !.midiHeld = FALSE]
         IN  IF c.state = ACTIVE /\ c.midiNoteKey # NoKey THEN c1
             ELSE _beginRelease(c1)

\* a plausible slip: the early return covers Complete only
release_guardComplete(c) ==
    IF c.state = COMPLETE THEN c
    ELSE LET c1 == [c EXCEPT !.midiHeld = FALSE]
         IN  IF c.state = SUSTAINING /\ c.midiNoteKey # NoKey THEN _beginRelease(c1)
             ELSE IF c.state = ACTIVE /\ c.midiNoteKey # NoKey THEN c1
             ELSE [c1 EXCEPT !.state = COMPLETE]

\* GestureClip.release()
release(c) ==
    IF c.state = RELEASING \/ c.state = COMPLETE THEN c
    ELSE LET c1 == [c EXCEPT !.midiHeld = FALSE]
         IN  IF c.state = SUSTAINING /\ c.midiNoteKey # NoKey THEN _beginRelease(c1)
             ELSE IF c.state = ACTIVE /\ c.midiNoteKey # NoKey THEN c1
             ELSE [c1 EXCEPT !.state = COMPLETE]

\* ───── clip factories (blendingEngine.js) ─────

\* base / Math.max(uiParams.speed * 2, 0.3), speed = slider / 100
SpeedScaled(base, slider) == (base * 50) \div Max(slider, 15)

\* createMidiClip: the duration follows the velocity within the template range
createMidiClip(id, vocab, channel, note, velocity, slider) ==
    LET t    == TEMPLATES[vocab]
        base == t.minDur + ((127 - velocity) * (t.maxDur - t.minDur)) \div 127
    IN  GestureClip(id, SpeedScaled(base, slider), t.easing, NoteKey(channel, note))

\* createGestureClip: the duration follows the phrase intensity (per-mille)
createGestureClip(id, vocab, phraseIntensity, slider) ==
    LET t    == TEMPLATES[vocab]
        base == t.minDur + ((PS - phraseIntensity) * (t.maxDur - t.minDur)) \div PS
    IN  GestureClip(id, SpeedScaled(base, slider), t.easing, NoKey)

\* ───── ClipQueue ─────

\* new ClipQueue(5), as App constructs it (modeManager.js 511-523, 1144)
ClipQueue(maxConcurrent) ==
    [ maxConcurrent |-> maxConcurrent,
      clips         |-> <<>>,
      cooldown      |-> 120,
      lastSpawnTime |-> 0,
      clock         |-> 0,
      visualMode    |-> defaultVisualMode ]

\* the live set after the object c has changed: clips holds references, so
\* every entry that is the object c (same uid) shows the change
Store(clips, c) == [i \in DOMAIN clips |-> IF clips[i].id = c.id THEN c ELSE clips[i]]

activeCount(queue) == Cardinality({i \in DOMAIN queue.clips : isActive(queue.clips[i])})

\* enqueue(), the mode-aware tuning of an accepted clip
StampMode(c, modeName) ==
    LET m  == visualModes[modeName]
        c1 == [c EXCEPT !.mode = modeName]
        c2 == IF m.durationMultiplier # 0
              THEN [c1 EXCEPT !.duration = (c.duration * m.durationMultiplier) \div 10]
              ELSE c1
    IN  IF m.easingOverride \in EasingNames
        THEN [c2 EXCEPT !.easing = m.easingOverride]
        ELSE c2

\* a plausible slip: the cooldown test is left out, only the cap limits admission
CooldownActive_off(queue) == FALSE

\* a plausible slip: the cooldown is compared in the wrong unit
CooldownActive_unit(queue) ==
    queue.clock - queue.lastSpawnTime < queue.cooldown \div 1000

\* enqueue(), the cooldown test
CooldownActive(queue) == queue.clock - queue.lastSpawnTime < queue.cooldown

\* a plausible slip: the clip is stamped and tuned before the admission tests
enqueue_stampFirst(queue, clip) ==
    LET s == StampMode(clip, queue.visualMode)
    IN  IF CooldownActive(queue) \/ activeCount(queue) >= queue.maxConcurrent
        THEN [ret |-> FALSE, queue |-> queue, clip |-> s]
        ELSE [ret   |-> TRUE,
              queue |-> [queue EXCEPT !.clips = Append(queue.clips, activate(s)),
                                      !.lastSpawnTime = queue.clock],
              clip  |-> activate(s)]

\* a plausible slip: the cap test lets the count pass the cap by one
enqueue_capByOne(queue, clip) ==
    IF CooldownActive(queue)
    THEN [ret |-> FALSE, queue |-> queue, clip |-> clip]
    ELSE IF activeCount(queue) > queue.maxConcurrent
    THEN [ret |-> FALSE, queue |-> queue, clip |-> clip]
    ELSE LET c == activate(StampMode(clip, queue.visualMode))
         IN  [ret   |-> TRUE,
              queue |-> [queue EXCEPT !.clips = Append(Store(queue.clips, c), c),
                                      !.lastSpawnTime = queue.clock],
              clip  |-> c]

\* ClipQueue.enqueue(clip): the return value, the queue and the clip afterwards
enqueue(queue, clip) ==
    IF CooldownActive(queue)
    THEN [ret |-> FALSE, queue |-> queue, clip |-> clip]
    ELSE IF activeCount(queue) >= queue.maxConcurrent
    THEN [ret |-> FALSE, queue |-> queue, clip |-> clip]
    ELSE LET c == activate(StampMode(clip, queue.visualMode))
         IN  [ret   |-> TRUE,
              queue |-> [queue EXCEPT !.clips = Append(Store(queue.clips, c), c),
                                      !.lastSpawnTime = queue.clock],
              clip  |-> c]

\* a plausible slip: the cooldown of the new mode is not taken over
setVisualMode_keepCooldown(queue, modeName) ==
    IF modeName \notin ModeNames THEN queue
    ELSE [queue EXCEPT !.visualMode = modeName,
                       !.maxConcurrent = visualModes[modeName].maxConcurrent]

\* ClipQueue.setVisualMode(modeName)
setVisualMode(queue, modeName) ==
    IF modeName \notin ModeNames THEN queue
    ELSE [queue EXCEPT !.visualMode = modeName,
                       !.maxConcurrent = visualModes[modeName].maxConcurrent,
                       !.cooldown = visualModes[modeName].clipCooldown]

\* ClipQueue.update, the loop "for (const clip of this.clips) clip.update(...)"
\* from entry i on
RECURSIVE UpdateEach(_, _, _, _)
UpdateEach(clips, i, dt, isContinuous) ==
    IF i > Len(clips) THEN clips
    ELSE UpdateEach(Store(clips, update(clips[i], dt, isContinuous)),
                    i + 1, dt, isContinuous)

\* ClipQueue.update, the pruning filter from entry i on: a Complete clip ages
\* by dt and is kept while its age is below fadeDelay; kept is the result so far
RECURSIVE Prune(_, _, _, _)
Prune(clips, i, dt, kept) ==
    IF i > Len(clips) THEN kept
    ELSE IF ~isComplete(clips[i])
         THEN Prune(clips, i + 1, dt, Append(kept, clips[i]))
         ELSE LET a == [clips[i] EXCEPT !.completedAge = @ + dt]
              IN  Prune(Store(clips, a), i + 1, dt,
                        IF a.completedAge < fadeDelay
                        THEN Append(Store(kept, a), a)
                        ELSE Store(kept, a))

\* a plausible slip: Complete clips are pruned at once, without the fade delay
queueUpdate_pruneAtOnce(queue, dt, isContinuous) ==
    LET notComplete(c) == ~isComplete(c)
    IN  [queue EXCEPT !.clock = queue.clock + dt,
                      !.clips = SelectSeq(UpdateEach(queue.clips, 1, dt, isContinuous),
                                          notComplete)]

\* ClipQueue.update(dt, isContinuous) with the default fadeDelay
queueUpdate(queue, dt, isContinuous) ==
    [queue EXCEPT !.clock = queue.clock + dt,
                  !.clips = Prune(UpdateEach(queue.clips, 1, dt, isContinuous),
                                  1, dt, <<>>)]

\* a plausible slip: the unbound loops get the release tail of the note clips
releaseAll_tail(queue) ==
    [queue EXCEPT !.clips =
        [i \in DOMAIN queue.clips |->
            IF isSustaining(queue.clips[i]) /\ queue.clips[i].midiNoteKey = NoKey
            THEN _beginRelease(queue.clips[i])
            ELSE queue.clips[i]]]

\* ClipQueue.releaseAll()
releaseAll(queue) ==
    [queue EXCEPT !.clips =
        [i \in DOMAIN queue.clips |->
            IF isSustaining(queue.clips[i]) /\ queue.clips[i].midiNoteKey = NoKey
            THEN release(queue.clips[i])
            ELSE queue.clips[i]]]

\* a plausible slip: the note key is not compared, every note-bound clip is released
releaseMidiNote_anyKey(queue, noteKey) ==
    [queue EXCEPT !.clips =
        [i \in DOMAIN queue.clips |->
            IF queue.clips[i].midiNoteKey # NoKey /\ isActive(queue.clips[i])
            THEN release(queue.clips[i])
            ELSE queue.clips[i]]]

\* ClipQueue.releaseMidiNote(noteKey)
releaseMidiNote(queue, noteKey) ==
    [queue EXCEPT !.clips =
        [i \in DOMAIN queue.clips |->
            IF queue.clips[i].midiNoteKey = noteKey /\ isActive(queue.clips[i])
            THEN release(queue.clips[i])
            ELSE queue.clips[i]]]

\* ClipQueue.clear()
clear(queue) == [queue EXCEPT !.clips = <<>>, !.lastSpawnTime = 0]

\* ───── biomechanical models (biomechanicalModels.js) ─────
\* Numbers are per-mille, times milliseconds, angles per-mille of a half
\* turn; a seed s is carried in tenths (s10 = 10 s).

Mul(a, b) == (a * b) \div PS

Abs(a) == IF a < 0 THEN 0 - a ELSE a

clamp01(v) == IF v < 0 THEN 0 ELSE IF v > PS THEN PS ELSE v

smoothstep(t) == (t * t * (3 * PS - 2 * t)) \div (PS * PS)

\* e^(-x) for x >= 0, through 2^(-x / ln 2)
ExpNeg(x) == Pow2Neg10((x * 1000) \div 6931)

\* seededRandom(seed): the fractional part of sin(seed * 438.8) * 43758.5453
seededRandom(s10) == ((SinPi(s10 * 13967) * 437585) \div 10) % PS

\* a path point {x, y, t, intensity}; nan names the fields that hold no
\* number (undefined or NaN)
Point(x, y, t, intensity) ==
    [ x |-> x, y |-> y, t |-> t, intensity |-> intensity, nan |-> {} ]

\* the samples t = i / steps and t * duration of a generator's loop,
\* i = 0..steps
PathOf(steps, duration) ==
    [ k \in 1..(steps + 1) |->
        LET t == ((k - 1) * PS) \div steps
        IN  [ t |-> t, time |-> (t * duration) \div PS ] ]

createWhaleBreachPath(intensity, duration, s10) ==
    LET v               == seededRandom(s10)
        peakHeight      == 300 + Mul(350, intensity)
        horizontalDrift == 150 + Mul(200, intensity)
        breachPoint     == 250 + Mul(100, v)
        gravity         == 800 + Mul(400, intensity)
        P(t, time) ==
            LET x     == clamp01(300 + Mul(horizontalDrift, t)
                                 + Mul(SinPi(Mul(t, PS + v)), 40))
                up    == smoothstep((t * PS) \div breachPoint)
                phase == ((t - breachPoint) * PS) \div (PS - breachPoint)
                gravDescent == Mul(Mul(phase, phase), gravity)
                waterResist == IF phase > 700 THEN Mul(phase - 700, 300) ELSE 0
                y0    == IF t < breachPoint
                         THEN 700 - Mul(up, peakHeight)
                         ELSE (700 - peakHeight) + Mul(gravDescent, peakHeight)
                              - Mul(waterResist, 100)
                y     == y0 + Mul(Mul(SinPi(Mul(6 * t, PS + v \div 2)), 10),
                                  PS - t)
                momentumIntensity ==
                         IF t < breachPoint
                         THEN Mul(up, intensity)
                         ELSE Mul(intensity, Max(PS - Mul(phase, 700), 200))
            IN  Point(clamp01(x), clamp01(y), time, clamp01(momentumIntensity))
    IN  LET S == PathOf(PathSteps, duration)
        IN  [ k \in DOMAIN S |-> P(S[k].t, S[k].time) ]

createWingBeatPath(intensity, duration, s10) ==
    LET v         == seededRandom(s10)
        cycleTime == 800 + Mul(300, v)
        amplitude == 120 + Mul(180, intensity)
        asymmetry == 600 + Mul(150, intensity)
        P(t, time) ==
            LET cycleProgress == ((time * PS) \div cycleTime) % PS
                cycle         == time \div cycleTime
                down          == smoothstep((cycleProgress * PS) \div 400)
                upFrac        == ((cycleProgress - 400) * PS) \div 600
                adjustedPhase == IF cycleProgress < 400
                                 THEN Mul(down, 500)
                                 ELSE 500 + Mul(upFrac, 500)
                theta2        == 2 * adjustedPhase
                x    == clamp01(500 + Mul(Mul(SinPi(theta2), amplitude),
                                          800 + Mul(400, v))
                                + cycle * 20)
                rawY == Mul(Mul(SinPi(2 * theta2), amplitude), asymmetry)
                y    == clamp01(500 - rawY + Mul(SinPi(2 * t), 20))
                beatIntensity ==
                        IF cycleProgress < 400
                        THEN Mul(intensity, 600 + Mul(down, 400))
                        ELSE Mul(intensity, 300 + Mul(PS - upFrac, 300))
            IN  Point(x, y, time, clamp01(beatIntensity))
    IN  LET S == PathOf(PathSteps, duration)
        IN  [ k \in DOMAIN S |-> P(S[k].t, S[k].time) ]

createLeafFallPath(intensity, duration, s10) ==
    LET v                == seededRandom(s10)
        tumbleFreq       == 1500 + 2 * intensity + Mul(1500, v)
        lateralAmp       == 100 + Mul(120, intensity) + Mul(50, v)
        startAngle       == 2 * v
        terminalVelocity == 550 + Mul(150, intensity)
        startX           == 300 + Mul(400, v)
        startY           == 50 + Mul(100, v)
        P(t, time) ==
            LET k            == 2500 + intensity
                velocityFrac == PS - ExpNeg(Mul(k, t))
                descent      == Mul(Mul(velocityFrac, terminalVelocity), t)
                y            == clamp01(startY + descent)
                tumblePhase  == startAngle + Mul(2 * t, tumbleFreq)
                decayingAmp  == Mul(lateralAmp, PS - Mul(t, 300))
                x == clamp01(startX + Mul(SinPi(tumblePhase), decayingAmp)
                             + Mul(Mul(SinPi((tumblePhase * 23) \div 10),
                                       decayingAmp), 300))
                tumbleIntensity ==
                     100 + Mul(Mul(Abs(SinPi(tumblePhase)), intensity), 500)
                     + Mul(velocityFrac, 200)
            IN  Point(x, y, time, clamp01(tumbleIntensity))
    IN  LET S == PathOf(PathSteps, duration)
        IN  [ k \in DOMAIN S |-> P(S[k].t, S[k].time) ]

\* the loop of createFishDartPath carries posX, posY, currentAngle and speed
\* from one sample to the next
RECURSIVE FishDartLoop(_, _, _, _)
FishDartLoop(i, c, st, path) ==
    IF i > c.steps THEN path
    ELSE
      LET t     == (i * PS) \div c.steps
          time  == (t * c.duration) \div PS
          full  == Mul(c.dartSpeed, c.intensity)
          turnPhase == ((t - c.turnPoint) * PS) \div 100
          speed ==
             IF t < 150
             THEN Mul(Mul(smoothstep((t * PS) \div 150), c.dartSpeed),
                      c.intensity)
             ELSE IF t < c.turnPoint
             THEN Mul(full, PS - Mul(((t - 150) * PS) \div (c.turnPoint - 150),
                                     400))
             ELSE IF t < c.turnPoint + 100
             THEN Mul(full, 600 + Mul(smoothstep(turnPhase), 500))
             ELSE Mul(full,
                      Max(1100 - ((t - c.turnPoint - 100) * PS)
                                 \div (PS - c.turnPoint - 100), 50))
          currentAngle ==
             IF t >= 150 /\ t >= c.turnPoint /\ t < c.turnPoint + 100
             THEN c.dartAngle + Mul(c.turnAngle, smoothstep(turnPhase))
             ELSE st.currentAngle
          wavePhase   == Mul(2 * t, c.waveFreq)
          waveLateral == Mul(Mul(SinPi(wavePhase), c.waveAmp), 500 + 2 * speed)
          perpAngle   == currentAngle + PS \div 2
          dt   == PS \div c.steps
          posX == st.posX + Mul(Mul(CosPi(currentAngle), speed), dt) * 8
                  + Mul(CosPi(perpAngle), waveLateral)
          posY == st.posY + Mul(Mul(SinPi(currentAngle), speed), dt) * 8
                  + Mul(SinPi(perpAngle), waveLateral)
          dartIntensity ==
                  (speed * PS) \div Mul(c.dartSpeed, Max(c.intensity, 100))
      IN  FishDartLoop(i + 1, c,
              [ posX |-> posX, posY |-> posY, currentAngle |-> currentAngle ],
              Append(path, Point(clamp01(posX), clamp01(posY), time,
                                 clamp01(dartIntensity))))

createFishDartPath(intensity, duration, s10) ==
    LET v == seededRandom(s10)
        c == [ steps     |-> PathSteps,
               duration  |-> duration,
               intensity |-> intensity,
               dartAngle |-> 2 * v,
               turnPoint |-> 350 + Mul(200, v),
               turnAngle |-> ((v - 500) * 12) \div 10,
               dartSpeed |-> 200 + Mul(250, intensity),
               waveFreq  |-> 6000 + 4 * intensity,
               waveAmp   |-> 30 + Mul(40, intensity) ]
    IN  FishDartLoop(0, c,
            [ posX |-> 300 + Mul(400, v),
              posY |-> 300 + Mul(400, seededRandom(s10 + 10)),
              currentAngle |-> 2 * v ],
            <<>>)

createSpiralPath(intensity, duration, s10) ==
    LET v       == seededRandom(s10)
        turns   == 2000 + 3 * intensity + 2 * v
        maxR    == 150 + Mul(150, intensity)
        tighten == v > 500
        P(t, time) ==
            LET angle == Mul(2 * t, turns) + v
                r     == IF tighten THEN Mul(maxR, PS - Mul(t, 700))
                                    ELSE Mul(maxR, 300 + Mul(t, 700))
            IN  Point(clamp01(500 + Mul(CosPi(angle), r)),
                      clamp01(500 + Mul(SinPi(angle), r)),
                      time,
                      clamp01(Mul(IF tighten THEN PS - t ELSE t, intensity)))
    IN  LET S == PathOf(PathSteps, duration)
        IN  [ k \in DOMAIN S |-> P(S[k].t, S[k].time) ]

createSurgePath(intensity, duration, s10) ==
    LET v     == seededRandom(s10)
        angle == 2 * v
        reach == 200 + Mul(250, intensity)
        P(t, time) ==
            LET eased  == PS - ExpNeg(Mul(t, 3000 + 2 * intensity))
                wobble == Mul(Mul(SinPi(Mul(t, 4000 + 3 * v)), 20), PS - t)
            IN  Point(clamp01(300 + Mul(Mul(CosPi(angle), eased), reach)
                              + wobble),
                      clamp01(500 + Mul(Mul(SinPi(angle), eased), reach)
                              + Mul(wobble, 700)),
                      time,
                      clamp01(Mul(eased, intensity)))
    IN  LET S == PathOf(PathSteps, duration)
        IN  [ k \in DOMAIN S |-> P(S[k].t, S[k].time) ]

createCascadePath(intensity, duration, s10) ==
    LET v            == seededRandom(s10)
        lateralDrift == Mul(v - 500, 300)
        P(t, time) ==
            Point(clamp01(500 + Mul(lateralDrift, t)
                          + Mul(Mul(SinPi(3 * t), 60), PS - t \div 2)),
                  clamp01(100 + Mul(Mul(t, t), 700)),
                  time,
                  clamp01(Mul(Mul(t, t), intensity) + 100))
    IN  LET S == PathOf(PathSteps, duration)
        IN  [ k \in DOMAIN S |-> P(S[k].t, S[k].time) ]

createRibbonPath(intensity, duration, s10) ==
    LET v    == seededRandom(s10)
        freq == 1500 + 2 * v
        amp  == 120 + Mul(100, intensity)
        P(t, time) ==
            Point(clamp01(150 + Mul(t, 700)),
                  clamp01(500 + Mul(SinPi(Mul(t, 2 * freq)), amp)
                          + Mul(Mul(CosPi(Mul(t, (freq * 7) \div 10)), amp),
                                300)),
                  time,
                  clamp01(200 + Mul(Mul(Abs(SinPi(Mul(t, freq))), intensity),
                                    600)))
    IN  LET S == PathOf(PathSteps, duration)
        IN  [ k \in DOMAIN S |-> P(S[k].t, S[k].time) ]

\* BIOMECHANICAL_MODELS: vocabulary name -> generator; bloom, pendulum,
\* scatter and crackle reuse the generator of another vocabulary
BIOMECHANICAL_MODELS ==
    [ whale    |-> "whale",  wing    |-> "wing",    leaf     |-> "leaf",
      fish     |-> "fish",   spiral  |-> "spiral",  surge    |-> "surge",
      cascade  |-> "cascade", ribbon |-> "ribbon",
      bloom    |-> "spiral", pendulum |-> "ribbon",
      scatter  |-> "surge",  crackle |-> "fish" ]

\* gen(intensity, duration, seed) for the generator a registry entry names
Generate(gen, intensity, duration, s10) ==
    CASE gen = "whale"   -> createWhaleBreachPath(intensity, duration, s10)
      [] gen = "wing"    -> createWingBeatPath(intensity, duration, s10)
      [] gen = "leaf"    -> createLeafFallPath(intensity, duration, s10)
      [] gen = "fish"    -> createFishDartPath(intensity, duration, s10)
      [] gen = "spiral"  -> createSpiralPath(intensity, duration, s10)
      [] gen = "surge"   -> createSurgePath(intensity, duration, s10)
      [] gen = "cascade" -> createCascadePath(intensity, duration, s10)
      [] gen = "ribbon"  -> createRibbonPath(intensity, duration, s10)

\* generateBiomechanicalGesture falling back to the ribbon model
generateBiomechanicalGesture_ribbonFallback(vocabulary, intensity, duration, s10) ==
    LET voc == IF vocabulary \in DOMAIN BIOMECHANICAL_MODELS
               THEN vocabulary ELSE "ribbon"
        Gesture(path) ==
            [ source     |-> "biomechanical",
              vocabulary |-> voc,
              name       |-> <<voc, "_bio">>,
              path       |-> path,
              duration   |-> IF Len(path) > 0 THEN path[Len(path)].t
                             ELSE duration,
              metadata   |-> [ duration        |-> duration,
                               intensity_range |-> << Max(intensity - 200, 0),
                                                      Min(intensity + 200, PS) >>,
                               pointCount      |-> Len(path),
                               seed            |-> s10 ] ]
    IN  Gesture(Generate(BIOMECHANICAL_MODELS[voc], intensity, duration, s10))

\* generateBiomechanicalGesture(vocabulary, intensity, duration, seed): a
\* vocabulary without a model is generated as 'leaf'
generateBiomechanicalGesture(vocabulary, intensity, duration, s10) ==
    LET voc == IF vocabulary \in DOMAIN BIOMECHANICAL_MODELS
               THEN vocabulary ELSE "leaf"
        Gesture(path) ==
            [ source     |-> "biomechanical",
              vocabulary |-> voc,
              name       |-> <<voc, "_bio">>,
              path       |-> path,
              duration   |-> IF Len(path) > 0 THEN path[Len(path)].t
                             ELSE duration,
              metadata   |-> [ duration        |-> duration,
                               intensity_range |-> << Max(intensity - 200, 0),
                                                      Min(intensity + 200, PS) >>,
                               pointCount      |-> Len(path),
                               seed            |-> s10 ] ]
    IN  Gesture(Generate(BIOMECHANICAL_MODELS[voc], intensity, duration, s10))

\* a generator call that draws its seed whether or not one is given
generateCall_drawnSeed(vocabulary, intensity, duration, seedGiven, s10, rnd) ==
    generateBiomechanicalGesture(vocabulary, intensity, duration, rnd)

\* a call of the exported generateBiomechanicalGesture: a seed that is not
\* given defaults to Math.random() * 999, drawn as rnd
generateCall(vocabulary, intensity, duration, seedGiven, s10, rnd) ==
    generateBiomechanicalGesture(vocabulary, intensity, duration,
                                 IF seedGiven THEN s10 ELSE rnd)

\* ───── imported gestures (naturalMotions.js) ─────
\* null where a gesture is expected
NoGesture == [ name |-> "none", path |-> <<>>, duration |-> 0, nan |-> {} ]

\* _smoothPath(path, windowSize): moving average of x, y and intensity
RECURSIVE SumField(_, _, _, _)
SumField(path, f, lo, hi) ==
    IF lo > hi THEN 0 ELSE path[lo][f] + SumField(path, f, lo + 1, hi)

_smoothPath(path, windowSize) ==
    IF Len(path) < windowSize THEN path
    ELSE LET half == windowSize \div 2
         IN  [ i \in 1..Len(path) |->
                 LET lo    == Max(1, i - half)
                     hi    == Min(Len(path), i + half)
                     count == hi - lo + 1
                 IN  [ x         |-> SumField(path, "x", lo, hi) \div count,
                       y         |-> SumField(path, "y", lo, hi) \div count,
                       t         |-> path[i].t,
                       intensity |-> SumField(path, "intensity", lo, hi)
                                     \div count,
                       nan       |-> (UNION { path[j].nan : j \in lo..hi }
                                      \ {"t"})
                                     \cup (path[i].nan \cap {"t"}) ] ]

\* path.sort((a, b) => a.t - b.t): a stable sort; a difference that is not
\* a number orders nothing
TBefore(a, b) == "t" \notin a.nan /\ "t" \notin b.nan /\ a.t < b.t

RECURSIVE InsertByT(_, _)
InsertByT(sorted, p) ==
    IF sorted = <<>> THEN <<p>>
    ELSE IF TBefore(p, sorted[Len(sorted)])
         THEN Append(InsertByT(SubSeq(sorted, 1, Len(sorted) - 1), p),
                     sorted[Len(sorted)])
         ELSE Append(sorted, p)

RECURSIVE SortByT(_)
SortByT(path) ==
    IF path = <<>> THEN <<>>
    ELSE InsertByT(SortByT(SubSeq(path, 1, Len(path) - 1)), path[Len(path)])

\* the remap of x and y to the full 0-1 range; a range of 0 becomes 0.001
\* and every number of that axis maps to 0
Defined(path, f) == { path[i][f] : i \in { j \in DOMAIN path : f \notin path[j].nan } }

SetMin(S) == CHOOSE m \in S : \A n \in S : m <= n
SetMax(S) == CHOOSE m \in S : \A n \in S : m >= n

Remap(path, f, val) ==
    LET D == Defined(path, f)
    IN  IF D = {} \/ SetMax(D) = SetMin(D) THEN 0
        ELSE ((val - SetMin(D)) * PS) \div (SetMax(D) - SetMin(D))

Normalize(path) ==
    [ i \in DOMAIN path |->
        [ x         |-> IF "x" \in path[i].nan THEN 0
                        ELSE Remap(path, "x", path[i].x),
          y         |-> IF "y" \in path[i].nan THEN 0
                        ELSE Remap(path, "y", path[i].y),
          t         |-> path[i].t,
          intensity |-> path[i].intensity,
          nan       |-> path[i].nan ] ]

\* _importedGestures: the entries in insertion order
IndexOf(store, vocabulary) ==
    IF \E i \in DOMAIN store : store[i].vocabulary = vocabulary
    THEN CHOOSE i \in DOMAIN store : store[i].vocabulary = vocabulary
    ELSE 0

hasImportedGesture(store, vocabulary) == IndexOf(store, vocabulary) > 0

getImportedGesture(store, vocabulary) ==
    IF hasImportedGesture(store, vocabulary)
    THEN store[IndexOf(store, vocabulary)].gesture
    ELSE NoGesture

PutGesture(store, vocabulary, gesture) ==
    IF hasImportedGesture(store, vocabulary)
    THEN [store EXCEPT ![IndexOf(store, vocabulary)].gesture = gesture]
    ELSE Append(store, [ vocabulary |-> vocabulary, gesture |-> gesture ])

\* getAnyImportedGesture(): the first entry
getAnyImportedGesture(store) ==
    IF store = <<>> THEN NoGesture ELSE store[1].gesture

\* loadGestureFromData(gestureData): the store afterwards and the outcome
\* of the call; gestureData.missing names the absent members
loadGestureFromData(store, gestureData) ==
    IF gestureData.missing \cap {"data", "path", "vocabulary"} # {}
    THEN [ store |-> store, ret |-> "false" ]
    ELSE IF Len(gestureData.path) < 2
    THEN [ store |-> store, ret |-> "false" ]
    ELSE
      LET path    == Normalize(SortByT(gestureData.path))
          last    == path[Len(path)]
          given   == "duration" \notin gestureData.missing
                     /\ gestureData.duration # 0
          gesture == [ name     |-> gestureData.name,
                       path     |-> path,
                       duration |-> IF given THEN gestureData.duration
                                    ELSE last.t,
                       nan      |-> IF ~given /\ "t" \in last.nan
                                    THEN {"duration"} ELSE {} ]
      IN  [ store |-> PutGesture(store, gestureData.vocabulary, gesture),
            ret   |-> IF gesture.nan = {} THEN "true" ELSE "TypeError" ]

\* unloadGesture(vocabulary)
unloadGesture(store, vocabulary) ==
    SelectSeq(store, LAMBDA e : e.vocabulary # vocabulary)

\* createHybridPathFn(vocabulary, originalPathFn): the closure's variables
createHybridPathFn(vocabulary) ==
    [ vocabulary |-> vocabulary, _bioGesture |-> NoGesture, _bioSeed |-> 0 ]

\* hybridPath reading the import store whatever the toggle says
hybridPath_ignoreToggle(fn, store, useVideoImports, clip) ==
    LET imported == getImportedGesture(store, fn.vocabulary)
        clipSeed == clip.variation
        Smoothed(bio) == [ name     |-> bio.name,
                           path     |-> _smoothPath(bio.path, 5),
                           duration |-> bio.duration,
                           nan      |-> {} ]
        Fill(fresh) == [ fn      |-> [fn EXCEPT !._bioGesture = fresh,
                                                !._bioSeed = clipSeed],
                         source  |-> "biomechanical",
                         gesture |-> fresh ]
    IN  IF imported # NoGesture
        THEN [ fn |-> fn, source |-> "imported", gesture |-> imported ]
        ELSE IF fn._bioGesture = NoGesture \/ fn._bioSeed # clipSeed
        THEN Fill(Smoothed(generateBiomechanicalGesture(
                      fn.vocabulary,
                      IF clip.intensity = 0 THEN 500 ELSE clip.intensity,
                      IF clip.duration = 0 THEN 6000 ELSE clip.duration,
                      (clipSeed * 999) \div 100)))
        ELSE [ fn |-> fn, source |-> "biomechanical",
               gesture |-> fn._bioGesture ]

\* hybridPath(t, clip): the closure afterwards, the source it sampled and
\* the gesture handed to _sampleImportedPath
hybridPath(fn, store, useVideoImports, clip) ==
    LET imported == IF useVideoImports
                    THEN getImportedGesture(store, fn.vocabulary)
                    ELSE NoGesture
        clipSeed == clip.variation
        Smoothed(bio) == [ name     |-> bio.name,
                           path     |-> _smoothPath(bio.path, 5),
                           duration |-> bio.duration,
                           nan      |-> {} ]
        Fill(fresh) == [ fn      |-> [fn EXCEPT !._bioGesture = fresh,
                                                !._bioSeed = clipSeed],
                         source  |-> "biomechanical",
                         gesture |-> fresh ]
    IN  IF imported # NoGesture
        THEN [ fn |-> fn, source |-> "imported", gesture |-> imported ]
        ELSE IF fn._bioGesture = NoGesture \/ fn._bioSeed # clipSeed
        THEN Fill(Smoothed(generateBiomechanicalGesture(
                      fn.vocabulary,
                      IF clip.intensity = 0 THEN 500 ELSE clip.intensity,
                      IF clip.duration = 0 THEN 6000 ELSE clip.duration,
                      (clipSeed * 999) \div 100)))
        ELSE [ fn |-> fn, source |-> "biomechanical",
               gesture |-> fn._bioGesture ]

\* ───── sampling a path (naturalMotions.js _sampleImportedPath) ─────
\* the span below which two bracketing samples count as simultaneous: 0.001 s
SpanEps == 1

\* the binary search for the samples around targetTime, lo and hi counted
\* from 0; a comparison with a time that is not a number is false
RECURSIVE Bracket(_, _, _, _, _)
Bracket(path, targetTime, defined, lo, hi) ==
    IF lo < hi - 1
    THEN LET mid == (lo + hi) \div 2
         IN  IF defined /\ "t" \notin path[mid + 1].nan
                /\ path[mid + 1].t <= targetTime
             THEN Bracket(path, targetTime, defined, mid, hi)
             ELSE Bracket(path, targetTime, defined, lo, mid)
    ELSE [ lo |-> lo, hi |-> hi ]

\* the interpolation fraction that takes the later sample when the span is
\* too short
Frac_laterSample(p1, p2, targetTime, defined) ==
    IF {"t"} \cap (p1.nan \cup p2.nan) = {} /\ p2.t - p1.t > SpanEps
    THEN [ frac    |-> IF defined
                       THEN ((targetTime - p1.t) * PS) \div (p2.t - p1.t)
                       ELSE 0,
           nan     |-> ~defined,
           divisor |-> p2.t - p1.t ]
    ELSE [ frac |-> PS, nan |-> FALSE, divisor |-> PS ]

\* frac = span > 0.001 ? (targetTime - p1.t) / span : 0, with the divisor of
\* the division made (PS when none is made)
Frac(p1, p2, targetTime, defined) ==
    IF {"t"} \cap (p1.nan \cup p2.nan) = {} /\ p2.t - p1.t > SpanEps
    THEN [ frac    |-> IF defined
                       THEN ((targetTime - p1.t) * PS) \div (p2.t - p1.t)
                       ELSE 0,
           nan     |-> ~defined,
           divisor |-> p2.t - p1.t ]
    ELSE [ frac |-> 0, nan |-> FALSE, divisor |-> PS ]

\* _hermite(p0, p1, p2, p3, t): Catmull-Rom interpolation
_hermite(p0, p1, p2, p3, t) ==
    LET Cubic(t2, t3) ==
            Mul(2 * t3 - 3 * t2 + PS, p1)
            + Mul(t3 - 2 * t2 + t, p2 - p0) \div 2
            + Mul(3 * t2 - 2 * t3, p2)
            + Mul(t3 - t2, p3 - p1) \div 2
    IN  Cubic(Mul(t, t), Mul(Mul(t, t), t))

\* the canvas position of the path position (nx, ny) for a clip in its
\* cycle-th playthrough: scaled, rotated by the heading, moved to the origin
\* and shifted by the drift of the cycle
Place(nx, ny, clip, cycle) ==
    LET \* sin and cos of an angle given in thousandths of a radian
        SinRad(mr) == SinPi((mr * 1000) \div 3142)
        CosRad(mr) == CosPi((mr * 1000) \div 3142)
        driftSeed == clip.variation * 1000 + cycle * 137500
        driftX == Mul(Mul(SinRad(driftSeed), clip.scale), 60)
                  + Mul(Mul(CosRad((driftSeed * 7) \div 10), clip.scale), 30)
        driftY == Mul(Mul(CosRad((driftSeed * 13) \div 10), clip.scale), 40)
                  + Mul(Mul(SinRad((driftSeed * 4) \div 10), clip.scale), 20)
        scaleVar == 600 + Mul(IF clip.variation = 0 THEN 500
                              ELSE clip.variation, 800)
        range == Mul(Mul(clip.scale, 250), scaleVar)
        dx == Mul(nx - 500, range)
        dy == Mul(ny - 500, range)
    IN  [ x |-> clip.origin.x + Mul(dx, CosRad(clip.heading))
                - Mul(dy, SinRad(clip.heading)) + driftX,
          y |-> clip.origin.y + Mul(dx, SinRad(clip.heading))
                + Mul(dy, CosRad(clip.heading)) + driftY ]

\* _sampleImportedPath(imported, t, clip): the returned { x, y, weight }
\* with the bracket, the fraction and the path position it was computed
\* from; nan names the members that are not numbers
_sampleImportedPath(imported, t, clip) ==
    LET path       == imported.path
        tStretched == (t * 300) \div PS
        defined    == "duration" \notin imported.nan
        targetTime == Mul(tStretched % PS, imported.duration)
        Sample(b) ==
            LET p0 == path[Max(b.lo - 1, 0) + 1]
                p1 == path[b.lo + 1]
                p2 == path[b.hi + 1]
                p3 == path[Min(b.hi + 1, Len(path) - 1) + 1]
                Interpolate(f) ==
                    LET At(nx, ny, ni) ==
                            [ x      |-> Place(nx, ny, clip,
                                               tStretched \div PS).x,
                              y      |-> Place(nx, ny, clip,
                                               tStretched \div PS).y,
                              weight |-> 200 + Min(Mul(ni, clip.intensity),
                                                   800),
                              nx |-> nx, ny |-> ny,
                              lo |-> b.lo, hi |-> b.hi,
                              frac |-> f.frac, divisor |-> f.divisor,
                              nan |-> (IF f.nan
                                       THEN {"x", "y", "weight"} ELSE {})
                                      \cup UNION { {"x"} \cap p.nan :
                                                   p \in {p0, p1, p2, p3} }
                                      \cup UNION { {"y"} \cap p.nan :
                                                   p \in {p0, p1, p2, p3} }
                                      \cup (IF "intensity" \in
                                                 (p1.nan \cup p2.nan)
                                            THEN {"weight"} ELSE {}) ]
                    IN  At(_hermite(p0.x, p1.x, p2.x, p3.x, f.frac),
                           _hermite(p0.y, p1.y, p2.y, p3.y, f.frac),
                           p1.intensity
                           + Mul(p2.intensity - p1.intensity, f.frac))
            IN  Interpolate(Frac(p1, p2, targetTime, defined))
    IN  Sample(Bracket(path, targetTime, defined, 0, Len(path) - 1))

\* ───── gesture library (gestureLibrary.js) ─────
BIO_VARIATIONS == 4

\* every vocabulary name a request can carry: the modelled ones and one
\* that no table knows
UnknownVocabulary == "comet"
Vocabularies == DOMAIN BIOMECHANICAL_MODELS \cup {UnknownVocabulary}

\* _bioCache = {}
EmptyBioCache == [ v \in Vocabularies |-> <<>> ]

\* the fill of _getBiomechanical on a miss: BIO_VARIATIONS gestures of
\* intensity 0.5 and seeds i * 127.3
Variations(vocabulary, duration) ==
    [ k \in 1..BIO_VARIATIONS |->
        generateBiomechanicalGesture(vocabulary, 500, duration,
                                     (k - 1) * 1273) ]

\* the score of a variation without its jitter: the distance of the middle
\* of its intensity range from the requested intensity
Dist(variation, intensity) ==
    LET r == variation.metadata.intensity_range
    IN  Abs((r[1] + r[2]) \div 2 - intensity)

\* the variations the jitter Math.random() * 0.15 can make the best one
CanPick(variations, intensity, idx) ==
    \A j \in DOMAIN variations :
        Dist(variations[idx], intensity) - Dist(variations[j], intensity) < 150

\* _getBiomechanical with a cache entry that also answers for its duration
\* only
_getBiomechanical_keyedByDuration(cache, vocabulary, intensity, duration, idx) ==
    LET Pick(filled) == [ cache |-> filled, gesture |-> filled[vocabulary][idx] ]
    IN  Pick(IF cache[vocabulary] = <<>>
                \/ cache[vocabulary][1].metadata.duration # duration
             THEN [cache EXCEPT ![vocabulary] = Variations(vocabulary, duration)]
             ELSE cache)

\* _getBiomechanical(vocabulary, intensity, duration) choosing idx
_getBiomechanical(cache, vocabulary, intensity, duration, idx) ==
    LET Pick(filled) == [ cache |-> filled, gesture |-> filled[vocabulary][idx] ]
    IN  Pick(IF cache[vocabulary] = <<>>
             THEN [cache EXCEPT ![vocabulary] = Variations(vocabulary, duration)]
             ELSE cache)

\* getGesture(vocabulary, musical, preferImported): the cache afterwards and
\* the members source, name and duration of the returned gesture
getGesture(cache, store, vocabulary, musical, preferImported, idx) ==
    LET imported == getImportedGesture(store, vocabulary)
        Answer(bio) == [ cache |-> bio.cache, source |-> "biomechanical",
                         gesture |-> bio.gesture ]
    IN  IF preferImported /\ hasImportedGesture(store, vocabulary)
           /\ Len(imported.path) >= 2
        THEN [ cache |-> cache, source |-> "video", gesture |-> imported ]
        ELSE Answer(_getBiomechanical(cache, vocabulary, musical.intensity,
                                      musical.duration, idx))

\* invalidateBioCache(vocabulary)
invalidateBioCache(cache, vocabulary) == [cache EXCEPT ![vocabulary] = <<>>]

\* ───── physics profiles (physics.js); noiseScale in thousandths ─────
PHYSICS_PROFILES ==
    [ whale    |-> [ type |-> "gravity",  noiseScale |-> 5, noiseAmp |-> 45 ],
      cascade  |-> [ type |-> "gravity",  noiseScale |-> 8, noiseAmp |-> 35 ],
      leaf     |-> [ type |-> "flutter",  noiseScale |-> 20, noiseAmp |-> 30 ],
      wing     |-> [ type |-> "spring",   noiseScale |-> 12, noiseAmp |-> 20 ],
      pendulum |-> [ type |-> "spring",   noiseScale |-> 10, noiseAmp |-> 25 ],
      spiral   |-> [ type |-> "orbit",    noiseScale |-> 10, noiseAmp |-> 25 ],
      bloom    |-> [ type |-> "orbit",    noiseScale |-> 8, noiseAmp |-> 30 ],
      surge    |-> [ type |-> "momentum", noiseScale |-> 10, noiseAmp |-> 25 ],
      scatter  |-> [ type |-> "momentum", noiseScale |-> 15, noiseAmp |-> 20 ],
      ribbon   |-> [ type |-> "flutter",  noiseScale |-> 8, noiseAmp |-> 35 ],
      crackle  |-> [ type |-> "momentum", noiseScale |-> 30, noiseAmp |-> 15 ] ]

DEFAULT_PROFILE == [ type |-> "flutter", noiseScale |-> 10, noiseAmp |-> 25 ]

PHYSICS_FNS == {"gravity", "flutter", "spring", "momentum", "orbit"}

\* applyPhysics(vocabularyType, ...): the profile and the physics function
\* it applies to the base position; no function leaves the position as it is
applyPhysics(vocabularyType) ==
    LET profile == IF vocabularyType \in DOMAIN PHYSICS_PROFILES
                   THEN PHYSICS_PROFILES[vocabularyType]
                   ELSE DEFAULT_PROFILE
    IN  [ profile |-> profile,
          fn      |-> IF profile.type \in PHYSICS_FNS THEN profile.type
                      ELSE "none" ]

\* ───── ContinuousLine: the gesture shape cache ─────
\* the vocabularies _generateBioPath rotates through
LineVocabs == << "whale", "wing", "leaf", "fish", "spiral", "ribbon", "cascade" >>

\* the fields of a ContinuousLine that the shape cache uses; _bioPath null
\* is the empty path
ContinuousLine(bioIndex) ==
    [ time |-> 0, _bioPath |-> <<>>, _bioExpiry |-> 0, _bioIndex |-> bioIndex,
      _activeGestureDuration |-> 10000 ]

\* _generateBioPath() drawing intensity and duration
_generateBioPath(line, intensity, duration) ==
    LET idx == line._bioIndex % Len(LineVocabs)
        Keep(bio) == [line EXCEPT !._bioIndex = idx + 1,
                                  !._bioPath = bio.path,
                                  !._activeGestureDuration = bio.duration,
                                  !._bioExpiry = line.time + (duration * 9) \div 10]
    IN  Keep(generateBiomechanicalGesture(LineVocabs[idx + 1], intensity,
                                          duration, line.time))

\* _getGestureShapePath that never looks at the expiry
_getGestureShapePath_noExpiry(line, store, intensity, duration) ==
    LET imported == getAnyImportedGesture(store)
        Shape(next) == [ line |-> next, path |-> next._bioPath ]
    IN  IF imported # NoGesture /\ Len(imported.path) > 2
        THEN [ line |-> [line EXCEPT !._activeGestureDuration =
                                         imported.duration],
               path |-> imported.path ]
        ELSE Shape(IF line._bioPath = <<>>
                   THEN _generateBioPath(line, intensity, duration)
                   ELSE line)

\* _getGestureShapePath(): the line afterwards and the returned path
_getGestureShapePath(line, store, intensity, duration) ==
    LET imported == getAnyImportedGesture(store)
        Shape(next) == [ line |-> next, path |-> next._bioPath ]
    IN  IF imported # NoGesture /\ Len(imported.path) > 2
        THEN [ line |-> [line EXCEPT !._activeGestureDuration =
                                         imported.duration],
               path |-> imported.path ]
        ELSE Shape(IF line._bioPath = <<>> \/ line._bioExpiry < line.time
                   THEN _generateBioPath(line, intensity, duration)
                   ELSE line)

\* update(dt, features, params): the clock and the shape lookup of a frame
lineUpdate(line, store, dt, intensity, duration) ==
    _getGestureShapePath([line EXCEPT !.time = @ + dt], store, intensity,
                         duration)

\* _restoreFromStorage(): the store a module load builds from the persisted
\* entries; an entry is restored as it was stored
_restoreFromStorage(data) ==
    SelectSeq(data, LAMBDA e : Len(e.gesture.path) >= 2)

\* ───── the gesture sources of a running App ─────
\* no call made yet
NoOut == [ op |-> "none", vocabulary |-> "", source |-> "", ret |-> "" ]

GestureSources ==
    [ _importedGestures |-> <<>>,            \* naturalMotions.js
      _useVideoImports  |-> TRUE,
      fns               |-> <<>>,            \* the hybrid path functions built
      _bioCache         |-> EmptyBioCache,   \* gestureLibrary.js
      line              |-> ContinuousLine(0),
      out               |-> NoOut,           \* what the last call returned
      hFilledAt         |-> [ v \in Vocabularies |-> 0 ],
                                             \* history: the line's time when
                                             \* _bioCache[v] was last filled
      hGen              |-> {},              \* history: the generator calls
                                             \* made with a seed, and what
                                             \* each returned
      hRepeat           |-> FALSE,           \* history: the last generator
                                             \* call repeated the arguments of
                                             \* an earlier one, another call
                                             \* having come in between
      app               |->                  \* modeManager.js: the App's
          [ _continuousFrames |-> 0,         \* frame counters of the audio
            _silentFrames     |-> 0,         \* gate
            _wasContinuous    |-> FALSE,
            hRun              |-> 0,         \* history: length of the last
                                             \* run of frames above threshold
            hReleaseAll       |-> FALSE ] ]  \* history: the last frame called
                                             \* clipQueue.releaseAll()

\* ───── state ─────
VARIABLES
    q,              \* the ClipQueue of the App
    offered,        \* the clip a factory has built and the handler offers to enqueue
    ret,            \* the value the last enqueue call returned
    pc,             \* position of the running handler: idle, created, updated,
                    \* enqueued
    nextId,         \* number of clips built so far (uid is unique per clip)
    hLastAccepted,  \* history: queue clock of the last accepted spawn since
                    \* construction or clear(), -1 when there is none
    g               \* the gesture sources: import store, toggle, biomechanical
                    \* caches, hybrid path functions, continuous line

vars == <<q, offered, ret, pc, nextId, hLastAccepted, g>>

Init ==
    /\ q = ClipQueue(5)
    /\ offered = NoClip
    /\ ret = FALSE
    /\ pc = "idle"
    /\ nextId = 0
    /\ hLastAccepted = -1
    /\ g = GestureSources

\* ───── operations ─────

\* App._handleMidiNoteOn, first half: createMidiClip builds a Pending clip
NoteOnCreate(vocab, channel, note, velocity, slider) ==
    /\ pc = "idle"
    /\ offered' = createMidiClip(nextId + 1, vocab, channel, note, velocity, slider)
    /\ nextId' = nextId + 1
    /\ pc' = "created"
    /\ UNCHANGED <<q, ret, hLastAccepted, g>>

\* App._updateDiscrete on a phrase start: createGestureClip builds a Pending clip
PhraseCreate(vocab, phraseIntensity, slider) ==
    /\ pc = "idle"
    /\ offered' = createGestureClip(nextId + 1, vocab, phraseIntensity, slider)
    /\ nextId' = nextId + 1
    /\ pc' = "created"
    /\ UNCHANGED <<q, ret, hLastAccepted, g>>

\* the caller builds a clip itself: new GestureClip(opts)
Construct(opts) ==
    /\ pc = "idle"
    /\ offered' = GestureClipOf(nextId + 1, opts)
    /\ nextId' = nextId + 1
    /\ pc' = "created"
    /\ UNCHANGED <<q, ret, hLastAccepted, g>>

\* clip.update(dt, shouldSustain) called directly by the caller on the clip
\* it holds, before offering it; the caller does this only to a clip that is
\* not in the live set (live clips are updated by the queue)
UpdateOffered(dt, shouldSustain) ==
    /\ pc = "created"
    /\ \A i \in DOMAIN q.clips : q.clips[i].id # offered.id
    /\ offered' = update(offered, dt, shouldSustain)
    /\ pc' = "updated"
    /\ UNCHANGED <<q, ret, nextId, hLastAccepted, g>>

\* a caller that kept its reference to the i-th live clip offers that clip
\* to the queue once more
Reoffer(i) ==
    /\ pc = "idle"
    /\ i \in DOMAIN q.clips
    /\ offered' = q.clips[i]
    /\ pc' = "created"
    /\ UNCHANGED <<q, ret, nextId, hLastAccepted, g>>

\* clipQueue.enqueue(clip) on the clip the caller holds
Enqueue ==
    /\ pc \in {"created", "updated"}
    /\ LET r == enqueue(q, offered)
       IN  /\ q' = r.queue
           /\ ret' = r.ret
           /\ offered' = r.clip
           /\ hLastAccepted' = IF r.ret THEN q.clock ELSE hLastAccepted
    /\ pc' = "enqueued"
    /\ UNCHANGED <<nextId, g>>

\* the handler returns; its local reference to the clip is dropped
Return ==
    /\ pc = "enqueued"
    /\ pc' = "idle"
    /\ offered' = NoClip
    /\ ret' = FALSE
    /\ UNCHANGED <<q, nextId, hLastAccepted, g>>

\* one frame: clipQueue.update(dt, isContinuous), dt clamped by App._loop
Tick(dt, isContinuous) ==
    /\ pc = "idle"
    /\ dt <= maxFrameDt
    /\ q' = queueUpdate(q, dt, isContinuous)
    /\ UNCHANGED <<offered, ret, pc, nextId, hLastAccepted, g>>

\* App._handleMidiNoteOff
NoteOff(channel, note) ==
    /\ pc = "idle"
    /\ q' = releaseMidiNote(q, NoteKey(channel, note))
    /\ UNCHANGED <<offered, ret, pc, nextId, hLastAccepted, g>>

\* clipQueue.releaseAll(), called by the owner of the queue
ReleaseAll ==
    /\ pc = "idle"
    /\ q' = releaseAll(q)
    /\ UNCHANGED <<offered, ret, pc, nextId, hLastAccepted, g>>

\* clipQueue.setVisualMode(modeName)
SetVisualMode(modeName) ==
    /\ pc = "idle"
    /\ q' = setVisualMode(q, modeName)
    /\ UNCHANGED <<offered, ret, pc, nextId, hLastAccepted, g>>

\* App._clear
Clear ==
    /\ pc = "idle"
    /\ q' = clear(q)
    /\ hLastAccepted' = -1
    /\ UNCHANGED <<offered, ret, pc, nextId, g>>

\* clip.release() called directly on the i-th live clip
Release(i) ==
    /\ pc = "idle"
    /\ i \in DOMAIN q.clips
    /\ q' = [q EXCEPT !.clips = Store(q.clips, release(q.clips[i]))]
    /\ UNCHANGED <<offered, ret, pc, nextId, hLastAccepted, g>>

\* ───── inputs of the queue-level specification ─────
Inputs ==
    [ Channels          |-> {2},
      Notes             |-> {60, 62},
      Velocities        |-> {100},
      MidiVocabs        |-> {"scatter"},
      AudioVocabs       |-> {"wing"},
      PhraseIntensities |-> {1000},
      Sliders           |-> {50},
      Dts               |-> {100},
      Modes             |-> ModeNames \cup {"unknown"} ]

Next ==
    \/ \E v \in Inputs.MidiVocabs, ch \in Inputs.Channels, n \in Inputs.Notes, vel \in Inputs.Velocities, s \in Inputs.Sliders :
          nextId < MaxClips /\ NoteOnCreate(v, ch, n, vel, s)
    \/ \E v \in Inputs.AudioVocabs, ph \in Inputs.PhraseIntensities, s \in Inputs.Sliders :
          nextId < MaxClips /\ PhraseCreate(v, ph, s)
    \/ Enqueue
    \/ Return
    \/ \E dt \in Inputs.Dts, b \in BOOLEAN : q.clock + dt <= MaxClock /\ Tick(dt, b)
    \/ \E ch \in Inputs.Channels, n \in Inputs.Notes : NoteOff(ch, n)
    \/ ReleaseAll
    \/ \E m \in Inputs.Modes : SetVisualMode(m)
    \/ Clear

Spec == Init /\ [][Next]_vars

\* ───── the single-clip specification ─────
\* One clip is built on a queue that has been running empty for StartClock
\* milliseconds in any of the visual modes; the clip is then driven by update()
\* and by direct release() calls for MaxClockClip milliseconds.
InputsClip ==
    [ MidiVocabs  |-> {"scatter", "wing"},
      Velocities  |-> {100, 127},
      AudioVocabs |-> {"wing", "leaf"},
      Sliders     |-> {50, 100},
      Dts         |-> {50} ]

InitClip ==
    /\ \E m \in ModeNames :
          q = [setVisualMode(ClipQueue(5), m) EXCEPT !.clock = StartClock]
    /\ offered = NoClip
    /\ ret = FALSE
    /\ pc = "idle"
    /\ nextId = 0
    /\ hLastAccepted = -1
    /\ g = GestureSources

NextClip ==
    \/ \E v \in InputsClip.MidiVocabs, vel \in InputsClip.Velocities, s \in InputsClip.Sliders :
          nextId = 0 /\ q.clock = StartClock /\ NoteOnCreate(v, 2, 60, vel, s)
    \/ \E v \in InputsClip.AudioVocabs, s \in InputsClip.Sliders :
          nextId = 0 /\ q.clock = StartClock /\ PhraseCreate(v, 1000, s)
    \/ Enqueue
    \/ Return
    \/ \E dt \in InputsClip.Dts, b \in BOOLEAN :
          q.clock + dt <= StartClock + MaxClockClip /\ q.clips # <<>> /\ Tick(dt, b)
    \/ Release(1)

SpecClip == InitClip /\ [][NextClip]_vars

\* ───── the single-clip specification with running frames ─────
\* As above, with one note clip or one phrase clip, frames of 100 ms and
\* note-offs, for MaxClockLive milliseconds.  The frame loop keeps running
\* (requestAnimationFrame) and a handler that has started returns.
TickLive ==
    \E b \in BOOLEAN :
        q.clock + 100 <= StartClock + MaxClockLive /\ q.clips # <<>> /\ Tick(100, b)

NextLive ==
    \/ nextId = 0 /\ q.clock = StartClock /\ NoteOnCreate("scatter", 2, 60, 100, 50)
    \/ nextId = 0 /\ q.clock = StartClock /\ PhraseCreate("scatter", 1000, 50)
    \/ Enqueue
    \/ Return
    \/ TickLive
    \/ q.clips # <<>> /\ NoteOff(2, 60)
    \/ Release(1)

SpecLive == InitClip /\ [][NextLive]_vars /\ WF_vars(TickLive) /\ WF_vars(Return)

\* ───── the burst specification ─────
\* A burst of clips is offered to the queue App constructs (cap 5, cooldown
\* 0.12 s, nothing live), either right after construction or after the queue
\* has been running empty for StartClock milliseconds.  Note clips and phrase
\* clips come in any order, with frames of 20 ms in between.
InputsBurst ==
    [ Starts |-> {0, StartClock},
      Dts    |-> {20} ]

InitBurst ==
    /\ \E s \in InputsBurst.Starts : q = [ClipQueue(5) EXCEPT !.clock = s]
    /\ offered = NoClip
    /\ ret = FALSE
    /\ pc = "idle"
    /\ nextId = 0
    /\ hLastAccepted = -1
    /\ g = GestureSources

NextBurst ==
    \/ \E v \in Inputs.MidiVocabs, ch \in Inputs.Channels, n \in Inputs.Notes, vel \in Inputs.Velocities, s \in Inputs.Sliders :
          nextId < MaxBurst /\ NoteOnCreate(v, ch, n, vel, s)
    \/ \E v \in Inputs.AudioVocabs, ph \in Inputs.PhraseIntensities, s \in Inputs.Sliders :
          nextId < MaxBurst /\ PhraseCreate(v, ph, s)
    \/ Enqueue
    \/ Return
    \/ \E dt \in InputsBurst.Dts, b \in BOOLEAN, s \in InputsBurst.Starts :
          /\ q.clock - s \in 0 .. (MaxClockBurst - dt)
          /\ nextId > 0
          /\ Tick(dt, b)
    \/ \E ch \in Inputs.Channels, n \in Inputs.Notes : NoteOff(ch, n)

SpecBurst == InitBurst /\ [][NextBurst]_vars

\* ───── the caller-level specification ─────
\* GestureClip and ClipQueue driven through their public methods by a caller
\* that keeps the references to the clips it builds: it may call update() on
\* a clip before offering it, call release() on a live clip, switch the visual
\* mode, and offer a clip that is already live once more.
InputsApi ==
    [ Modes |-> {"jazz", "organic"},
      \* the options of the clips the caller builds itself: with and
      \* without an origin
      Opts  |-> { [ duration |-> 400, easingName |-> "quad", midiNoteKey |-> NoKey,
                    origin |-> [ x |-> 400, y |-> 300 ], missing |-> m ] :
                  m \in { {}, {"origin"} } } ]

NextApi ==
    \/ \E v \in Inputs.MidiVocabs, ch \in Inputs.Channels, vel \in Inputs.Velocities, s \in Inputs.Sliders :
          nextId < MaxClipsApi /\ NoteOnCreate(v, ch, 60, vel, s)
    \/ \E v \in Inputs.AudioVocabs, ph \in Inputs.PhraseIntensities, s \in Inputs.Sliders :
          nextId < MaxClipsApi /\ PhraseCreate(v, ph, s)
    \/ \E opts \in InputsApi.Opts : nextId < MaxClipsApi /\ Construct(opts)
    \/ \E dt \in Inputs.Dts, b \in BOOLEAN : UpdateOffered(dt, b)
    \/ Enqueue
    \/ Return
    \/ \E dt \in Inputs.Dts, b \in BOOLEAN : q.clock + dt <= MaxClockApi /\ Tick(dt, b)
    \/ \E i \in 1 .. MaxLiveApi : Release(i)
    \/ \E m \in InputsApi.Modes : SetVisualMode(m)
    \/ \E i \in 1 .. MaxLiveApi : Len(q.clips) < MaxLiveApi /\ Reoffer(i)

SpecApi == Init /\ [][NextApi]_vars

\* ───── the long-note specification ─────
\* One soft, long note (a leaf gesture of about two seconds) is played on a
\* queue that has been running empty for StartClock milliseconds in one of the
\* two visual modes App switches between, and is held over thousands of frames
\* of 16 ms (60 frames a second) or let go at any frame.
InputsPoints ==
    [ Vocabs     |-> {"leaf"},
      Velocities |-> {64},
      Dts        |-> {16} ]

InitPoints ==
    /\ \E m \in InputsApi.Modes :
          q = [setVisualMode(ClipQueue(5), m) EXCEPT !.clock = StartClock]
    /\ offered = NoClip
    /\ ret = FALSE
    /\ pc = "idle"
    /\ nextId = 0
    /\ hLastAccepted = -1
    /\ g = GestureSources

NextPoints ==
    \/ \E v \in InputsPoints.Vocabs, vel \in InputsPoints.Velocities, s \in Inputs.Sliders :
          nextId = 0 /\ NoteOnCreate(v, 2, 60, vel, s)
    \/ Enqueue
    \/ Return
    \/ \E dt \in InputsPoints.Dts, b \in BOOLEAN :
          /\ q.clock + dt <= StartClock + MaxClockPoints
          /\ q.clips # <<>>
          /\ Tick(dt, b)
    \/ NoteOff(2, 60)

SpecPoints == InitPoints /\ [][NextPoints]_vars

\* ───── operations on the gesture sources ─────
gvars == <<q, offered, ret, pc, nextId, hLastAccepted>>

RawPoint(x, y, t, intensity, nan) ==
    [ x |-> x, y |-> y, t |-> t, intensity |-> intensity, nan |-> nan ]

GestureData(vocabulary, name, path, duration, missing) ==
    [ vocabulary |-> vocabulary, name |-> name, path |-> path,
      duration |-> duration, missing |-> missing ]

\* loadGestureFromData(gestureData)
LoadGestureFromData(gestureData) ==
    /\ \E r \in {loadGestureFromData(g._importedGestures, gestureData)} :
          g' = [g EXCEPT !._importedGestures = r.store,
                         !.out = [ op |-> "loadGestureFromData",
                                   vocabulary |-> gestureData.vocabulary,
                                   source |-> "", ret |-> r.ret,
                                   gestureData |-> gestureData ]]
    /\ UNCHANGED gvars

\* unloadGesture(vocabulary)
UnloadGesture(vocabulary) ==
    /\ g' = [g EXCEPT !._importedGestures = unloadGesture(@, vocabulary),
                      !.out = [ op |-> "unloadGesture",
                                vocabulary |-> vocabulary,
                                source |-> "", ret |-> "" ]]
    /\ UNCHANGED gvars

\* setUseVideoImports(use)
SetUseVideoImports(use) ==
    /\ g' = [g EXCEPT !._useVideoImports = use,
                      !.out = [ op |-> "setUseVideoImports", vocabulary |-> "",
                                source |-> "", ret |-> "" ]]
    /\ UNCHANGED gvars

\* a clip factory builds the path function of a new clip
CreateHybridPathFn(vocabulary) ==
    /\ Len(g.fns) < MaxFns
    /\ g' = [g EXCEPT !.fns = Append(@, createHybridPathFn(vocabulary)),
                      !.out = [ op |-> "createHybridPathFn",
                                vocabulary |-> vocabulary,
                                source |-> "", ret |-> "" ]]
    /\ UNCHANGED gvars

\* a clip samples its path function, the i-th one built, at progress t
HybridPath(i, clip, t) ==
    /\ i \in DOMAIN g.fns
    /\ \E r \in {hybridPath(g.fns[i], g._importedGestures,
                            g._useVideoImports, clip)} :
       \E sample \in {_sampleImportedPath(r.gesture, t, clip)} :
          g' = [g EXCEPT !.fns[i] = r.fn,
                         !.out = [ op |-> "hybridPath",
                                   vocabulary |-> g.fns[i].vocabulary,
                                   source |-> r.source, ret |-> "",
                                   gesture |-> r.gesture, fn |-> i,
                                   clip |-> clip, t |-> t,
                                   sample |-> sample ]]
    /\ UNCHANGED gvars

\* applyPhysics(vocabularyType, ...)
ApplyPhysics(vocabularyType) ==
    /\ \E r \in {applyPhysics(vocabularyType)} :
          g' = [g EXCEPT !.out = [ op |-> "applyPhysics",
                                   vocabulary |-> vocabularyType,
                                   source |-> "", ret |-> r.fn,
                                   profile |-> r.profile ]]
    /\ UNCHANGED gvars

\* getGesture(vocabulary, musical, preferImported); idx is the variation the
\* jitter lets win
GetGesture(vocabulary, musical, preferImported, idx) ==
    /\ \E r \in {getGesture(g._bioCache, g._importedGestures, vocabulary,
                            musical, preferImported, idx)} :
          /\ IF r.source = "video" THEN idx = 1
             ELSE CanPick(r.cache[vocabulary], musical.intensity, idx)
          /\ g' = [g EXCEPT
                     !._bioCache = r.cache,
                     !.hFilledAt[vocabulary] =
                         IF r.cache[vocabulary] # g._bioCache[vocabulary]
                         THEN g.line.time ELSE @,
                     !.out = [ op |-> "getGesture", vocabulary |-> vocabulary,
                               source |-> r.source, ret |-> "",
                               gesture |-> r.gesture, musical |-> musical ]]
    /\ UNCHANGED gvars

\* invalidateBioCache(vocabulary)
InvalidateBioCache(vocabulary) ==
    /\ g' = [g EXCEPT !._bioCache = invalidateBioCache(@, vocabulary),
                      !.out = [ op |-> "invalidateBioCache",
                                vocabulary |-> vocabulary,
                                source |-> "", ret |-> "" ]]
    /\ UNCHANGED gvars

\* generateBiomechanicalGesture(vocabulary, intensity, duration[, seed]); rnd
\* is the Math.random() * 999 drawn when no seed is given
GenerateBiomechanicalGesture(vocabulary, intensity, duration, seedGiven, s10, rnd) ==
    /\ \E args \in {[ vocabulary |-> vocabulary, intensity |-> intensity,
                      duration |-> duration, seed |-> s10 ]},
          r \in {generateCall(vocabulary, intensity, duration, seedGiven, s10,
                              rnd)} :
          g' = [g EXCEPT
                  !.hGen = IF seedGiven
                           THEN @ \cup {[ args |-> args, gesture |-> r ]}
                           ELSE @,
                  !.hRepeat = /\ seedGiven
                              /\ \E h \in g.hGen : h.args = args
                              /\ \/ g.out.op # "generateBiomechanicalGesture"
                                 \/ ~g.out.seedGiven
                                 \/ g.out.args # args,
                  !.out = [ op |-> "generateBiomechanicalGesture",
                            vocabulary |-> vocabulary, source |-> r.source,
                            ret |-> "", gesture |-> r, args |-> args,
                            seedGiven |-> seedGiven ]]
    /\ UNCHANGED gvars

\* ContinuousLine.update(dt, ...): a frame of the line; intensity and
\* duration are the draws _generateBioPath makes when it runs
LineUpdate(dt, intensity, duration) ==
    /\ \E r \in {lineUpdate(g.line, g._importedGestures, dt, intensity,
                            duration)} :
          g' = [g EXCEPT
                  !.line = r.line,
                  !.out = [ op |-> "lineUpdate", vocabulary |-> "",
                            source |-> IF r.path = r.line._bioPath
                                       THEN "biomechanical" ELSE "video",
                            ret |-> "",
                            duration |-> IF r.line._bioIndex # g.line._bioIndex
                                         THEN duration ELSE 0 ]]
    /\ UNCHANGED gvars

\* ───── the gesture-source specification ─────
\* three well-formed points of a leaf, out of order, x and y in a corner
GoodLeaf ==
    GestureData("leaf", "clip_a",
        << RawPoint(400, 300, 2000, 800, {}), RawPoint(200, 100, 0, 200, {}),
           RawPoint(300, 300, 1000, 500, {}) >>, 0, {"duration"})

InputsSource ==
    [ Vocabs |-> {"leaf", "scatter", UnknownVocabulary},
      GestureData |->
          { GoodLeaf,
            \* two well-formed points and a duration
            GestureData("scatter", "clip_b",
                << RawPoint(0, 500, 0, 300, {}), RawPoint(1000, 500, 500, 900, {}) >>,
                800, {}),
            \* a single point, no points, no path, no vocabulary, no data
            GestureData("leaf", "clip_c", << RawPoint(500, 500, 0, 500, {}) >>,
                1000, {}),
            GestureData("leaf", "clip_d", <<>>, 1000, {}),
            GestureData("leaf", "clip_e", <<>>, 1000, {"path"}),
            GestureData("", "clip_f",
                << RawPoint(0, 0, 0, 500, {}), RawPoint(1000, 1000, 900, 500, {}) >>,
                1000, {"vocabulary"}),
            GestureData("", "", <<>>, 0, {"data"}),
            \* points without intensity
            GestureData("leaf", "clip_g",
                << RawPoint(100, 100, 0, 0, {"intensity"}),
                   RawPoint(900, 600, 700, 0, {"intensity"}) >>, 0, {"duration"}),
            \* points without t and no duration
            GestureData("scatter", "clip_h",
                << RawPoint(100, 900, 0, 400, {"t"}),
                   RawPoint(600, 200, 0, 600, {"t"}) >>, 0, {"duration"}) },
      Clips |->
          { [ variation |-> v, intensity |-> 400, duration |-> 3000,
              origin |-> [ x |-> 400, y |-> 300 ], heading |-> 785,
              scale |-> 1000 ] :
              v \in {250, 750} },
      Phases |-> {500},
      Storages |->
          { <<>>,
            << [ vocabulary |-> "leaf",
                 gesture |-> [ name |-> "kept", duration |-> 500, nan |-> {},
                               path |-> << RawPoint(0, 0, 0, 100, {}),
                                           RawPoint(1000, 1000, 500, 900, {}) >> ] ] >>,
            << [ vocabulary |-> "scatter",
                 gesture |-> [ name |-> "stub", duration |-> 100, nan |-> {},
                               path |-> << RawPoint(0, 0, 0, 100, {}) >> ] ] >> },
      Musical |->
          { [ intensity |-> 500, duration |-> 6000 ],
            [ intensity |-> 900, duration |-> 3000 ] } ]

InitSource ==
    /\ q = ClipQueue(5)
    /\ offered = NoClip
    /\ ret = FALSE
    /\ pc = "idle"
    /\ nextId = 0
    /\ hLastAccepted = -1
    /\ \E data \in InputsSource.Storages :
          g = [GestureSources EXCEPT
                   !._importedGestures = _restoreFromStorage(data)]

NextSource ==
    \/ \E d \in InputsSource.GestureData : LoadGestureFromData(d)
    \/ \E v \in InputsSource.Vocabs : UnloadGesture(v)
    \/ \E use \in BOOLEAN : SetUseVideoImports(use)
    \/ \E v \in InputsSource.Vocabs : CreateHybridPathFn(v)
    \/ \E i \in 1..MaxFns, clip \in InputsSource.Clips, t \in InputsSource.Phases :
          HybridPath(i, clip, t)

SpecSource == InitSource /\ [][NextSource]_vars

\* ───── the path-sampling specification ─────
\* Gestures whose samples share a time are imported for the leaf vocabulary
\* and a leaf clip samples its hybrid path at phases of its first three
\* playthroughs.
InputsSample ==
    [ GestureData |->
          { GoodLeaf,
            \* the first two samples share their time
            GestureData("leaf", "clip_i",
                << RawPoint(100, 200, 500, 300, {}),
                   RawPoint(900, 600, 500, 700, {}),
                   RawPoint(500, 900, 1000, 500, {}) >>, 0, {"duration"}),
            \* the last two samples share their time, before the duration
            GestureData("leaf", "clip_j",
                << RawPoint(100, 900, 0, 300, {}),
                   RawPoint(400, 100, 1000, 900, {}),
                   RawPoint(800, 500, 1000, 200, {}) >>, 2000, {}),
            \* two samples in all, at one time
            GestureData("leaf", "clip_k",
                << RawPoint(200, 200, 700, 400, {}),
                   RawPoint(800, 700, 700, 800, {}) >>, 1000, {}),
            \* samples without t
            GestureData("leaf", "clip_l",
                << RawPoint(100, 900, 0, 400, {"t"}),
                   RawPoint(600, 200, 0, 600, {"t"}) >>, 1000, {}) },
      Phases |-> {0, 500, 1000, 2500, 4000, 5000, 6900} ]

NextSample ==
    \/ \E d \in InputsSample.GestureData : LoadGestureFromData(d)
    \/ UnloadGesture("leaf")
    \/ CreateHybridPathFn("leaf")
    \/ \E i \in 1..MaxFns, clip \in InputsSource.Clips, t \in InputsSample.Phases :
          HybridPath(i, clip, t)

SpecSample == Init /\ [][NextSample]_vars

\* ───── the gesture-library specification ─────
NextLib ==
    \/ \E v \in InputsSource.Vocabs, musical \in InputsSource.Musical, preferImported \in BOOLEAN,
          idx \in 1..BIO_VARIATIONS :
          GetGesture(v, musical, preferImported, idx)
    \/ \E v \in InputsSource.Vocabs : InvalidateBioCache(v)
    \/ \E v \in InputsSource.Vocabs : UnloadGesture(v)

SpecLib == InitSource /\ [][NextLib]_vars

\* ───── the generator specification ─────
InputsGen ==
    [ Seeds   |-> {0, 1273},
      Randoms |-> {0, 4995} ]

NextGen ==
    \/ \E v \in InputsSource.Vocabs, s \in InputsGen.Seeds, rnd \in InputsGen.Randoms :
          GenerateBiomechanicalGesture(v, 500, 6000, TRUE, s, rnd)
    \/ \E v \in InputsSource.Vocabs, rnd \in InputsGen.Randoms :
          GenerateBiomechanicalGesture(v, 500, 6000, FALSE, 0, rnd)
    \/ \E v \in InputsSource.Vocabs : ApplyPhysics(v)

SpecGen == Init /\ [][NextGen]_vars

\* ───── the continuous-line specification ─────
InputsLine ==
    [ Dts         |-> {900},
      Intensities |-> {300},
      Durations   |-> {8000, 12000},
      Starts      |-> {0, 6} ]

InitLine ==
    /\ q = ClipQueue(5)
    /\ offered = NoClip
    /\ ret = FALSE
    /\ pc = "idle"
    /\ nextId = 0
    /\ hLastAccepted = -1
    /\ \E b \in InputsLine.Starts :
          g = [GestureSources EXCEPT !.line = ContinuousLine(b)]

NextLine ==
    \/ \E dt \in InputsLine.Dts, i \in InputsLine.Intensities, d \in InputsLine.Durations :
          g.line.time + dt <= MaxClockLine /\ LineUpdate(dt, i, d)
    \/ \E idx \in {1, BIO_VARIATIONS} :
          GetGesture("leaf", [ intensity |-> 500, duration |-> 6000 ], TRUE, idx)
    \/ LoadGestureFromData(GoodLeaf)
    \/ UnloadGesture("leaf")

SpecLine == InitLine /\ [][NextLine]_vars

\* ───── the audio-gate specification ─────
\* App._updateDiscrete with inputMode 'audio' (no MIDI input): one frame of
\* the discrete renderer. aboveThreshold is the gate on the frame's
\* amplitude; isPhraseStart is what detectPhrase answers when it is asked.
UpdateDiscrete(dt, aboveThreshold, isPhraseStart) ==
    /\ pc = "idle"
    /\ dt <= maxFrameDt
    /\ LET a == g.app
           continuousFrames == IF aboveThreshold THEN a._continuousFrames + 1 ELSE 0
           silentFrames     == IF aboveThreshold THEN 0 ELSE a._silentFrames + 1
           isContinuous     == continuousFrames > 6
           callsReleaseAll  == silentFrames = 4 /\ a._wasContinuous
           spawns           == aboveThreshold /\ isPhraseStart
       IN  \E released \in {IF callsReleaseAll THEN releaseAll(q) ELSE q} :
           \E r \in {IF spawns
                      THEN enqueue(released, createGestureClip(nextId + 1, "wing", 1000, 50))
                      ELSE [ queue |-> released, ret |-> FALSE, clip |-> NoClip ]} :
              /\ q' = queueUpdate(r.queue, dt, isContinuous)
              /\ nextId' = IF spawns THEN nextId + 1 ELSE nextId
              /\ hLastAccepted' = IF r.ret THEN q.clock ELSE hLastAccepted
              /\ g' = [g EXCEPT !.app =
                         [ _continuousFrames |-> continuousFrames,
                           _silentFrames     |-> silentFrames,
                           _wasContinuous    |-> isContinuous,
                           hRun              |-> IF aboveThreshold
                                                 THEN continuousFrames
                                                 ELSE a.hRun,
                           hReleaseAll       |-> callsReleaseAll ]]
    /\ UNCHANGED <<offered, ret, pc>>

NextFrames ==
    \E dt \in {100}, above \in BOOLEAN, start \in BOOLEAN :
        /\ q.clock + dt <= MaxClockFrames
        /\ (above /\ start) => nextId < MaxClips
        /\ (~above) => ~start
        /\ UpdateDiscrete(dt, above, start)

SpecFrames == Init /\ [][NextFrames]_vars


\* ═════ properties ═════

\* every clip object the program holds: the live set and the offered clip
AllClips == Range(q.clips) \cup (IF offered = NoClip THEN {} ELSE {offered})

\* live clips in Active, Sustaining or Releasing, counted from the state field
NonTerminalCount == Cardinality({i \in DOMAIN q.clips :
                        q.clips[i].state \in {ACTIVE, SUSTAINING, RELEASING}})

\* position in the lifecycle order
Rank(state) ==
    CASE state = PENDING    -> 0
      [] state = ACTIVE     -> 1
      [] state = SUSTAINING -> 2
      [] state = RELEASING  -> 3
      [] state = COMPLETE   -> 4

\* the step is a call of clipQueue.enqueue
EnqueueStep == pc \in {"created", "updated"} /\ pc' = "enqueued"

\* C1: an enqueue made while the queue clock is less than the cooldown past the
\* last accepted spawn returns false and admits nothing, so a second enqueue in
\* the cooldown window of an accepted one is never admitted.
C1_CooldownRejects ==
    [][ (EnqueueStep /\ hLastAccepted >= 0 /\ q.clock - hLastAccepted < q.cooldown)
          => (ret' = FALSE /\ q'.clips = q.clips) ]_vars

C1_Witness ==
    /\ pc = "enqueued" /\ ret = FALSE
    /\ hLastAccepted >= 0 /\ q.clock - hLastAccepted < q.cooldown
    /\ NonTerminalCount < q.maxConcurrent

\* C2: an enqueue made while the number of live clips in Active, Sustaining or
\* Releasing is at or above maxConcurrent returns false.
C2_CapRejects ==
    [][ (EnqueueStep /\ NonTerminalCount >= q.maxConcurrent) => ret' = FALSE ]_vars

C2_Witness ==
    /\ pc = "enqueued" /\ ret = FALSE
    /\ NonTerminalCount >= q.maxConcurrent
    /\ q.clock - q.lastSpawnTime >= q.cooldown

\* C3: an enqueue that returns false leaves the live set, the queue clock, the
\* last-spawn time and the offered clip's state, duration, easing and mode stamp
\* exactly as they were.
C3_RejectionHasNoEffect ==
    [][ (EnqueueStep /\ ret' = FALSE)
          => /\ q'.clips = q.clips
             /\ q'.clock = q.clock
             /\ q'.lastSpawnTime = q.lastSpawnTime
             /\ offered'.state = offered.state
             /\ offered'.duration = offered.duration
             /\ offered'.easing = offered.easing
             /\ offered'.mode = offered.mode ]_vars

C3_Witness ==
    /\ pc = "enqueued" /\ ret = FALSE
    /\ offered.state = PENDING /\ offered.mode = NoMode
    /\ q.visualMode = "organic"

\* C4: under update() and release() a clip's state never moves backward in the
\* order Pending, Active, Sustaining, Releasing, Complete, and a Complete clip
\* stays Complete.
C4_StateMonotonic ==
    [][ \A c \in AllClips : \A d \in AllClips' :
            c.id = d.id => Rank(d.state) >= Rank(c.state) ]_vars

C4_Witness ==
    \E c \in Range(q.clips) :
        /\ c.state = COMPLETE /\ c.completedAge > maxFrameDt
        /\ c.sustainStart > 0 /\ c.releaseStart > c.sustainStart

\* C5 as stated: a note-off for channel 2, note 60 leaves every non-terminal
\* clip bound to that key in Releasing.
C5_NoteOffAlwaysReleasing ==
    [][ NoteOff(2, 60)
          => \A i \in DOMAIN q.clips :
                (q.clips[i].midiNoteKey = NoteKey(2, 60)
                    /\ q.clips[i].state \in {ACTIVE, SUSTAINING, RELEASING})
                   => q'.clips[i].state = RELEASING ]_vars

\* C5 amended: a note-off for channel 2, note 60 leaves a clip bound to that key
\* in Releasing when it was Sustaining or Releasing; a clip that was still Active
\* stays Active and only has its hold flag cleared.
C5_NoteOffReleasesSustaining ==
    [][ NoteOff(2, 60)
          => \A i \in DOMAIN q.clips :
                q.clips[i].midiNoteKey = NoteKey(2, 60)
                   => /\ q.clips[i].state \in {SUSTAINING, RELEASING}
                         => q'.clips[i].state = RELEASING
                      /\ q.clips[i].state = ACTIVE
                         => (q'.clips[i].state = ACTIVE /\ ~q'.clips[i].midiHeld) ]_vars

C5_Witness ==
    \E c \in Range(q.clips) :
        /\ c.midiNoteKey = NoteKey(2, 60)
        /\ c.state = RELEASING /\ ~c.midiHeld
        /\ c.releaseStart = c.elapsed

\* C6: releaseMidiNote(key) leaves every clip whose binding differs from key,
\* unbound clips included, exactly as it was.
C6_OtherClipsUntouched ==
    [][ \A ch \in Inputs.Channels, n \in Inputs.Notes :
           NoteOff(ch, n)
             => /\ Len(q'.clips) = Len(q.clips)
                /\ \A i \in DOMAIN q.clips :
                      q.clips[i].midiNoteKey # NoteKey(ch, n)
                         => q'.clips[i] = q.clips[i] ]_vars

C6_Witness ==
    \E i, j, k \in DOMAIN q.clips :
        /\ q.clips[i].midiNoteKey = NoteKey(2, 60)
        /\ q.clips[i].state = RELEASING /\ ~q.clips[i].midiHeld
        /\ q.clips[j].midiNoteKey = NoteKey(2, 62)
        /\ q.clips[j].state \in {ACTIVE, SUSTAINING} /\ q.clips[j].midiHeld
        /\ q.clips[k].midiNoteKey = NoKey /\ q.clips[k].state = ACTIVE

\* C7: a note-bound clip that is Sustaining is never Complete one step later;
\* it reaches Complete only through Releasing.
C7_ReleasingBeforeComplete ==
    [][ \A c \in Range(q.clips) : \A d \in Range(q'.clips) :
            (c.id = d.id /\ c.midiNoteKey # NoKey /\ c.state = SUSTAINING)
               => d.state \in {SUSTAINING, RELEASING} ]_vars

C7_Witness ==
    \E c \in Range(q.clips) :
        /\ c.midiNoteKey # NoKey /\ ~c.midiHeld
        /\ c.state = COMPLETE
        /\ c.sustainStart > 0 /\ c.releaseStart >= c.sustainStart
        /\ c.elapsed >= c.releaseStart + c.releaseDuration

\* a note-bound clip whose release tail has begun
InReleaseTail(c) == c.midiNoteKey # NoKey /\ c.state = RELEASING

\* C8 as stated: the release duration of a note-bound clip is at least 0.15 s
\* and at most duration * 0.5.
C8_ReleaseDurationBounds ==
    \A c \in Range(q.clips) :
        InReleaseTail(c)
           => /\ c.releaseDuration >= minReleaseDuration
              /\ 2 * c.releaseDuration <= c.duration

\* C8 amended: the release duration of a note-bound clip is at least 0.15 s and
\* at most the larger of duration * 0.5 and 0.15 s.
C8_ReleaseDurationBoundsAmended ==
    \A c \in Range(q.clips) :
        InReleaseTail(c)
           => /\ c.releaseDuration >= minReleaseDuration
              /\ 2 * c.releaseDuration <= Max(c.duration, 2 * minReleaseDuration)

C8_Witness ==
    \E c \in Range(q.clips) :
        /\ InReleaseTail(c) /\ ~c.midiHeld
        /\ c.duration >= 2 * minReleaseDuration
        /\ c.releaseDuration > minReleaseDuration

\* C9: a tick that takes a Sustaining clip to 24 * duration or more of sustain
\* time (maxSustainCycles * halfCycle * 2, halfCycle = duration * 0.6) ends with
\* the clip in Releasing, whatever the hold input; so no clip is Sustaining
\* beyond that time.
C9_SustainCapReleases ==
    [][ \A c \in Range(q.clips) : \A d \in Range(q'.clips) :
            (c.id = d.id /\ c.state = SUSTAINING /\ d.elapsed > c.elapsed
               /\ 10 * (d.elapsed - c.sustainStart)
                     >= maxSustainCycles * 12 * c.duration)
               => d.state = RELEASING ]_vars

C9_Witness ==
    \E c \in Range(q.clips) :
        /\ c.midiNoteKey # NoKey /\ c.midiHeld
        /\ c.state = RELEASING
        /\ 10 * (c.releaseStart - c.sustainStart) >= maxSustainCycles * 12 * c.duration

\* C10: a tick of an Active clip with no sustain condition (unbound and ticked
\* with shouldSustain false, or note-bound with the hold flag already cleared)
\* leaves it Active while its elapsed time is below its duration and makes it
\* Complete as soon as its elapsed time has reached its duration.  An unbound
\* clip found Sustaining after the tick was ticked with shouldSustain true.
C10_CompletesAtDuration ==
    [][ \A c \in Range(q.clips) : \A d \in Range(q'.clips) :
            (c.id = d.id /\ c.state = ACTIVE /\ d.elapsed > c.elapsed
               /\ (c.midiNoteKey = NoKey \/ ~c.midiHeld))
               => IF d.elapsed < d.duration
                  THEN d.state = ACTIVE
                  ELSE \/ d.state = COMPLETE
                       \/ (c.midiNoteKey = NoKey /\ d.state = SUSTAINING) ]_vars

\* C11 as stated: releaseAll() leaves every clip that was Sustaining and has no
\* note binding in Releasing.
C11_ReleaseAllToReleasing ==
    [][ ReleaseAll
          => \A i \in DOMAIN q.clips :
                (q.clips[i].state = SUSTAINING /\ q.clips[i].midiNoteKey = NoKey)
                   => q'.clips[i].state = RELEASING ]_vars

\* C11 amended: releaseAll() makes every clip that was Sustaining and has no
\* note binding Complete in the same call, with no release tail, and leaves
\* every other clip exactly as it was.
C11_ReleaseAllCompletes ==
    [][ ReleaseAll
          => /\ Len(q'.clips) = Len(q.clips)
             /\ \A i \in DOMAIN q.clips :
                   IF q.clips[i].state = SUSTAINING /\ q.clips[i].midiNoteKey = NoKey
                   THEN /\ q'.clips[i].state = COMPLETE
                        /\ q'.clips[i].elapsed = q.clips[i].elapsed
                        /\ q'.clips[i].releaseStart = q.clips[i].releaseStart
                   ELSE q'.clips[i] = q.clips[i] ]_vars

C11_Witness ==
    \E c \in Range(q.clips) :
        /\ c.midiNoteKey = NoKey /\ c.state = COMPLETE
        /\ c.sustainStart > 0 /\ c.releaseStart = 0 /\ c.completedAge = 0

\* the queue clock is still within one cooldown of the start of the burst, so
\* every enqueue made so far fell into one cooldown window
BurstWindow == \E s \in InputsBurst.Starts : q.clock - s \in 0 .. (q.cooldown - 1)

\* all MaxBurst clips of the burst have been offered and the handlers have
\* returned
BurstDone == nextId = MaxBurst /\ pc = "idle" /\ BurstWindow

\* C12 as stated: six clips offered within one cooldown window under a cap of 5,
\* starting with nothing live, leave exactly 5 accepted (and 1 rejected).
C12_BurstAdmitsFive ==
    (BurstDone /\ q.maxConcurrent = 5) => Len(q.clips) = 5

\* C12 amended: six clips offered within one cooldown window under a cap of 5,
\* starting with nothing live, leave at most 1 accepted and at least 5 rejected,
\* in whatever order the clips come; exactly 1 is accepted when the burst starts
\* at least a cooldown after the queue was constructed.
C12_BurstAdmitsOne ==
    (BurstDone /\ q.maxConcurrent = 5)
       => /\ Len(q.clips) <= 1
          /\ MaxBurst - Len(q.clips) >= 5
          /\ q.clock >= StartClock => Len(q.clips) = 1

C12_Witness ==
    /\ BurstDone /\ q.maxConcurrent = 5
    /\ q.clock > StartClock
    /\ Len(q.clips) = 1 /\ q.clips[1].npoints > 0

\* C13: a note-off that finds a note-bound clip Active leaves it Active and
\* only clears its hold flag; from then on a tick never takes the clip into
\* Sustaining, and takes it from Active to Complete exactly when its progress
\* has reached 1.0.
C13_ReleasedActiveCompletes ==
    [][ /\ \A ch \in Inputs.Channels, n \in Inputs.Notes :
              NoteOff(ch, n)
                => \A i \in DOMAIN q.clips :
                      (q.clips[i].midiNoteKey = NoteKey(ch, n)
                          /\ q.clips[i].state = ACTIVE)
                         => q'.clips[i] = [q.clips[i] EXCEPT !.midiHeld = FALSE]
        /\ \A c \in Range(q.clips) : \A d \in Range(q'.clips) :
              (c.id = d.id /\ c.midiNoteKey # NoKey /\ ~c.midiHeld
                 /\ c.state = ACTIVE /\ d.elapsed > c.elapsed)
                 => /\ d.state \in {ACTIVE, COMPLETE}
                    /\ d.state = COMPLETE <=> d.progress >= PS ]_vars

\* C14: release() on a clip without a note binding that is Active or
\* Sustaining makes it Complete in that call; the clip is never Releasing and
\* no release tail is started.
C14_UnboundReleaseCompletes ==
    [][ \A i \in DOMAIN q.clips :
            (Release(i) /\ q.clips[i].midiNoteKey = NoKey
               /\ q.clips[i].state \in {ACTIVE, SUSTAINING})
               => /\ q'.clips[i].state = COMPLETE
                  /\ q'.clips[i].elapsed = q.clips[i].elapsed
                  /\ q'.clips[i].releaseStart = 0 ]_vars

C14_Witness ==
    \E c \in Range(q.clips) :
        /\ c.midiNoteKey = NoKey /\ c.state = COMPLETE
        /\ c.elapsed > 0 /\ c.elapsed < c.duration
        /\ c.releaseStart = 0 /\ c.completedAge = 0

\* the progress a clip must have reached to enter Sustaining: 1.0 without a
\* note binding, else the sustain-entry threshold of the mode stamped on the
\* clip at admission (0.85 when the clip carries no mode)
EntryThreshold(c) ==
    IF c.midiNoteKey = NoKey THEN PS
    ELSE IF c.mode = NoMode THEN 850
    ELSE visualModes[c.mode].sustainEntryThreshold

\* C15: a clip that goes from Active to Sustaining has reached its entry
\* threshold, in elapsed time and in its progress field.
C15_SustainEntryThreshold ==
    [][ \A c \in Range(q.clips) : \A d \in Range(q'.clips) :
            (c.id = d.id /\ c.state # SUSTAINING /\ d.state = SUSTAINING)
               => /\ c.state = ACTIVE
                  /\ d.progress >= EntryThreshold(d)
                  /\ d.elapsed * PS >= EntryThreshold(d) * d.duration ]_vars

C15_Witness ==
    \E c \in Range(q.clips) :
        /\ c.midiNoteKey # NoKey /\ c.mode = "organic"
        /\ c.state = SUSTAINING /\ c.sustainStart = c.elapsed
        /\ c.progress >= 920 /\ c.progress < PS

\* C16: a tick of a Sustaining clip whose hold input is false (the clip's own
\* hold flag when it is note-bound, the shouldSustain argument of the tick when
\* it is not) ends with the clip in Releasing, its release tail starting at the
\* elapsed time of that tick.
C16_HoldDropReleases ==
    [][ \A dt \in InputsClip.Dts : \A i \in DOMAIN q.clips :
            ( /\ q.clips[i].state = SUSTAINING
              /\ \/ /\ q.clips[i].midiNoteKey # NoKey
                    /\ ~q.clips[i].midiHeld
                    /\ (Tick(dt, TRUE) \/ Tick(dt, FALSE))
                 \/ /\ q.clips[i].midiNoteKey = NoKey
                    /\ Tick(dt, FALSE) )
               => /\ Len(q'.clips) = Len(q.clips)
                  /\ q'.clips[i].state = RELEASING
                  /\ q'.clips[i].releaseStart = q.clips[i].elapsed + dt ]_vars

C16_Witness ==
    \E c \in Range(q.clips) :
        /\ c.midiNoteKey = NoKey /\ c.state = RELEASING
        /\ c.releaseStart = c.elapsed /\ c.releaseStart > c.sustainStart
        /\ 10 * (c.releaseStart - c.sustainStart) < maxSustainCycles * 12 * c.duration

\* C17: update() on a Pending clip changes nothing (state, elapsed time,
\* progress, phase, point buffer), and from the moment a clip is Complete the
\* frame updates leave its state, elapsed time, progress, phase and the length
\* of its point buffer as they are.
C17_UpdateNoOp ==
    [][ /\ (pc = "created" /\ pc' = "updated" /\ offered.state = PENDING)
              => (offered' = offered /\ q' = q)
        /\ \A c \in Range(q.clips) : \A d \in Range(q'.clips) :
              (c.id = d.id /\ c.state = COMPLETE /\ q'.clock > q.clock)
                 => /\ d.state = COMPLETE
                    /\ d.elapsed = c.elapsed
                    /\ d.progress = c.progress
                    /\ d.currentPathT = c.currentPathT
                    /\ d.npoints = c.npoints ]_vars

C17_Witness ==
    /\ pc = "updated" /\ offered.state = PENDING
    /\ offered.elapsed = 0 /\ offered.npoints = 0
    /\ \E c \in Range(q.clips) :
          /\ c.state = COMPLETE /\ c.completedAge >= 2 * maxFrameDt
          /\ c.npoints > 0 /\ c.npoints * maxFrameDt = c.elapsed

\* C18: enqueue admits, and so activates, only a clip that is still Pending,
\* and no call takes a clip that has been activated back to Active from a later
\* state or sets its elapsed time or its phase back.
C18_ActivatedOnce ==
    [][ /\ (EnqueueStep /\ ret') => offered.state = PENDING
        /\ \A c \in Range(q.clips) : \A d \in Range(q'.clips) :
              (c.id = d.id /\ c.state # PENDING)
                 => /\ d.elapsed >= c.elapsed
                    /\ d.state = ACTIVE => c.state = ACTIVE ]_vars

\* C19: a clip's point buffer never holds more than 2000 points, however long
\* the clip sustains.
C19_PointsCapped ==
    \A c \in AllClips : c.npoints <= maxPoints

C19_Witness ==
    \E c \in Range(q.clips) :
        /\ c.state = SUSTAINING /\ c.midiHeld
        /\ c.elapsed = (maxPoints + 1) * 16
        /\ c.npoints = keptPoints

\* C20 as stated: from one tick to the next the point buffer of a clip that is
\* Active, Sustaining or Releasing never gets shorter.
C20_PointsNeverShrink ==
    [][ \A c \in Range(q.clips) : \A d \in Range(q'.clips) :
            (c.id = d.id /\ c.state \in {ACTIVE, SUSTAINING, RELEASING}
               /\ q'.clock > q.clock)
               => d.npoints >= c.npoints ]_vars

\* C20 amended: a tick of a clip that is Active, Sustaining or Releasing makes
\* its point buffer one point longer, except that a tick which finds 2000
\* points in the buffer cuts it back to the newest 1500.
C20_PointsGrowOrCut ==
    [][ \A c \in Range(q.clips) : \A d \in Range(q'.clips) :
            (c.id = d.id /\ c.state \in {ACTIVE, SUSTAINING, RELEASING}
               /\ q'.clock > q.clock)
               => d.npoints = IF c.npoints = maxPoints THEN keptPoints
                              ELSE c.npoints + 1 ]_vars

C20_Witness ==
    \E c \in Range(q.clips) :
        /\ c.state \in {ACTIVE, SUSTAINING, RELEASING}
        /\ c.elapsed = (maxPoints + 2) * 16
        /\ c.npoints = keptPoints + 1

\* C21 as stated: from one tick to the next, while a clip stays Active, neither
\* its progress nor its eased phase decreases, whatever easing curve it carries.
C21_ActiveMonotone ==
    [][ \A c \in Range(q.clips) : \A d \in Range(q'.clips) :
            (c.id = d.id /\ c.state = ACTIVE /\ d.state = ACTIVE
               /\ q'.clock > q.clock)
               => /\ d.progress >= c.progress
                  /\ easedProgress(d) >= easedProgress(c) ]_vars

\* C21 amended: while a clip stays Active its progress never decreases, and its
\* eased phase never decreases when its easing curve is cubic, quad or sine; the
\* elastic curve overshoots and swings back, so the phase of an elastic clip
\* may decrease.
C21_ActiveMonotoneNonElastic ==
    [][ \A c \in Range(q.clips) : \A d \in Range(q'.clips) :
            (c.id = d.id /\ c.state = ACTIVE /\ d.state = ACTIVE
               /\ q'.clock > q.clock)
               => /\ d.progress >= c.progress
                  /\ c.easing \in {"cubic", "quad", "sine"}
                        => easedProgress(d) >= easedProgress(c) ]_vars

C21_Witness ==
    \E c \in Range(q.clips) :
        /\ c.state = ACTIVE /\ c.easing = "cubic"
        /\ c.progress > 750 /\ c.progress < PS
        /\ easedProgress(c) > c.progress

\* C22: setVisualMode with a known mode name sets the concurrency cap, the
\* cooldown and the mode that later admissions stamp in one step, and leaves
\* the live clips, the clock and the last-spawn time alone; with an unknown
\* name it changes nothing.  An admission stamps the mode the queue has at
\* that moment.
C22_ModeSwitch ==
    [][ /\ \A m \in Inputs.Modes :
              SetVisualMode(m)
                => /\ q'.clips = q.clips
                   /\ q'.clock = q.clock
                   /\ q'.lastSpawnTime = q.lastSpawnTime
                   /\ IF m \in ModeNames
                      THEN /\ q'.visualMode = m
                           /\ q'.maxConcurrent = visualModes[m].maxConcurrent
                           /\ q'.cooldown = visualModes[m].clipCooldown
                      ELSE q' = q
        /\ (EnqueueStep /\ ret') => offered'.mode = q.visualMode ]_vars

C22_Witness ==
    /\ q.visualMode = "organic" /\ q.maxConcurrent = 3 /\ q.cooldown = 2000
    /\ \E c \in Range(q.clips) :
          /\ c.mode = "jazz" /\ c.state \in {ACTIVE, SUSTAINING}
          /\ c.easing = "elastic" /\ c.duration = 285

\* C23: a tick removes a clip from the live set only when the clip is Complete
\* and its age since completion, this tick included, has reached the fade-out
\* window of 2 s; a clip in Active, Sustaining or Releasing is still live after
\* the tick; and no Complete clip whose age has reached the window is left in
\* the live set after a tick.
C23_PruneOnlyFaded ==
    [][ q'.clock > q.clock
          => /\ \A c \in Range(q.clips) :
                   (\A d \in Range(q'.clips) : d.id # c.id)
                      => /\ c.state = COMPLETE
                         /\ c.completedAge + (q'.clock - q.clock) >= fadeDelay
             /\ \A c \in Range(q.clips) :
                   c.state \in {ACTIVE, SUSTAINING, RELEASING}
                      => \E d \in Range(q'.clips) : d.id = c.id
             /\ \A d \in Range(q'.clips) :
                   ~(d.state = COMPLETE /\ d.completedAge >= fadeDelay) ]_vars

C23_Witness ==
    /\ q.clips = <<>> /\ nextId = 1 /\ pc = "idle"
    /\ hLastAccepted = StartClock
    /\ q.clock > StartClock + fadeDelay

\* the lifecycle edges one update() call may take; with Rank they are the
\* single transitions of the lifecycle
OneTransition(from, to) ==
    \/ from = to
    \/ from = ACTIVE     /\ to \in {SUSTAINING, COMPLETE}
    \/ from = SUSTAINING /\ to = RELEASING
    \/ from = RELEASING  /\ to = COMPLETE

\* C24: one tick takes a clip through at most one state transition: an Active
\* clip is never Releasing, and a Sustaining clip never Complete, after a
\* single tick.
C24_OneTransitionPerTick ==
    [][ q'.clock > q.clock
          => \A c \in Range(q.clips) : \A d \in Range(q'.clips) :
                c.id = d.id => OneTransition(c.state, d.state) ]_vars

C24_Witness ==
    \E c \in Range(q.clips) :
        /\ c.midiNoteKey = NoKey /\ c.state = RELEASING
        /\ c.sustainStart >= c.duration
        /\ c.releaseStart = c.sustainStart + 50
        /\ c.elapsed = c.releaseStart

\* ───── gesture sources ─────
\* a step in which a clip sampled its path function
HybridPathStep == g' # g /\ g'.out.op = "hybridPath"

\* the biomechanical source is available for a vocabulary when the generator
\* returns a path for it
BioAvailable(v) == Len(generateBiomechanicalGesture(v, 500, 6000, 0).path) > 0

\* the highest-priority source available for a vocabulary
ExpectedSource(gs, v) ==
    IF gs._useVideoImports /\ hasImportedGesture(gs._importedGestures, v)
    THEN "imported"
    ELSE IF BioAvailable(v) THEN "biomechanical" ELSE "template"

LoadStep == g' # g /\ g'.out.op = "loadGestureFromData"

\* an imported path with fewer than two points or with a point that lacks x,
\* y, t or intensity
Malformed(gestureData) ==
    \/ "path" \in gestureData.missing
    \/ Len(gestureData.path) < 2
    \/ \E i \in DOMAIN gestureData.path : gestureData.path[i].nan # {}

\* C28: loadGestureFromData returns false and leaves the import store as it
\* was for every path of fewer than two points and for every path with a
\* point that lacks x, y, t or intensity
C28_MalformedRejected ==
    [][LoadStep /\ Malformed(g'.out.gestureData) =>
          /\ g'.out.ret = "false"
          /\ g'._importedGestures = g._importedGestures]_vars

LineStep == g' # g /\ g'.out.op = "lineUpdate"
LineRegenerated == g'.line._bioIndex # g.line._bioIndex

\* a getGesture call that found the vocabulary's entry in _bioCache
LibraryHit ==
    /\ g' # g
    /\ g'.out.op = "getGesture"
    /\ g'.out.source = "biomechanical"
    /\ g._bioCache[g'.out.vocabulary] # <<>>

\* the age after which a library entry would be stale if it expired like the
\* line's path: 0.9 of the duration it was generated for
StaleAfter(entry) == (entry[1].metadata.duration * 9) \div 10

\* C27 (as stated): every cached biomechanical path expires after a fraction
\* of its duration and the first lookup after that regenerates it: the
\* line's path and the library's per-vocabulary entry alike
C27_ExpiryEverywhere ==
    [][/\ (LineStep /\ g'.out.source = "biomechanical"
              /\ g.line._bioExpiry < g'.line.time) => LineRegenerated
       /\ (LibraryHit
              /\ g.line.time > g.hFilledAt[g'.out.vocabulary]
                                + StaleAfter(g._bioCache[g'.out.vocabulary]))
             => g'.hFilledAt[g'.out.vocabulary] = g.line.time]_vars

\* C27 (amended): the path cached by the continuous line expires 0.9 of its
\* drawn duration after it was generated, and a frame without a usable import
\* regenerates it exactly when there is none or the expiry has passed; an
\* entry of the library's per-vocabulary cache has no expiry and is returned
\* however old it is
C27_LineExpiryOnly ==
    [][/\ LineStep =>
             /\ LineRegenerated =>
                    /\ g'.line._bioPath # <<>>
                    /\ g'.line._bioExpiry
                          = g'.line.time + (g'.out.duration * 9) \div 10
             /\ g'.out.source = "biomechanical" =>
                    (LineRegenerated <=>
                        (g.line._bioPath = <<>>
                           \/ g.line._bioExpiry < g'.line.time))
             /\ g'.out.source = "video" => ~LineRegenerated
       /\ LibraryHit =>
             /\ g'._bioCache = g._bioCache
             /\ g'.hFilledAt = g.hFilledAt]_vars

\* the line has just regenerated a path whose predecessor had expired, while
\* the library still holds an entry older than 0.9 of its duration
C27_Witness ==
    /\ g.out.op = "lineUpdate"
    /\ g.out.duration # 0
    /\ g.line.time > SetMax(InputsLine.Dts)
    /\ g._bioCache["leaf"] # <<>>
    /\ g.line.time > g.hFilledAt["leaf"] + StaleAfter(g._bioCache["leaf"])

GenStep     == g' # g /\ g'.out.op = "generateBiomechanicalGesture"
PhysicsStep == g' # g /\ g'.out.op = "applyPhysics"

\* C30: a request for a vocabulary without a model never fails: the generator
\* returns a path, that of the leaf generator for an unknown vocabulary and
\* that of the surge generator for scatter, and applyPhysics applies the
\* physics of the default profile to a vocabulary without a profile
C30_UnknownVocabularyFallsBack ==
    [][/\ GenStep =>
             LET r == g'.out.gesture
                 a == g'.out.args
             IN  /\ Len(r.path) = PathSteps + 1
                 /\ a.vocabulary \notin DOMAIN BIOMECHANICAL_MODELS =>
                        /\ r.vocabulary = "leaf"
                        /\ r.path = createLeafFallPath(a.intensity, a.duration,
                                                       r.metadata.seed)
                 /\ a.vocabulary = "scatter" =>
                        r.path = createSurgePath(a.intensity, a.duration,
                                                 r.metadata.seed)
       /\ PhysicsStep =>
             /\ g'.out.ret \in PHYSICS_FNS
             /\ g'.out.vocabulary \notin DOMAIN PHYSICS_PROFILES =>
                    /\ g'.out.profile = DEFAULT_PROFILE
                    /\ g'.out.ret = DEFAULT_PROFILE.type]_vars

\* the generator was called with a seed for the unknown vocabulary and
\* answered with a leaf path, and applyPhysics has just been called for the
\* unknown vocabulary
C30_Witness ==
    /\ \E h \in g.hGen : /\ h.args.vocabulary = UnknownVocabulary
                         /\ h.gesture.vocabulary = "leaf"
                         /\ h.gesture.path # <<>>
    /\ g.out.op = "applyPhysics"
    /\ g.out.vocabulary = UnknownVocabulary
    /\ g.out.profile = DEFAULT_PROFILE

\* the two samples a hybrid path sample was interpolated between
Earlier(o) == o.gesture.path[o.sample.lo + 1]
Later(o)   == o.gesture.path[o.sample.hi + 1]

\* the samples around the sampling time have numbers for times, and the
\* same one
ZeroSpan(o) ==
    /\ Len(o.gesture.path) >= 2
    /\ "t" \notin Earlier(o).nan \cup Later(o).nan
    /\ Earlier(o).t = Later(o).t

\* C31: a sample taken between two path samples of the same time has
\* fraction 0 and the position of the earlier of the two, on the path and on
\* the canvas, and no sample of a path divides by zero
C31_DegenerateInterpolation ==
    [][HybridPathStep =>
          LET o == g'.out
          IN  /\ o.sample.divisor # 0
              /\ ZeroSpan(o) =>
                    /\ o.sample.frac = 0
                    /\ o.sample.nx = Earlier(o).x
                    /\ o.sample.ny = Earlier(o).y
                    /\ o.sample.x = Place(Earlier(o).x, Earlier(o).y, o.clip,
                                          ((o.t * 300) \div PS) \div PS).x
                    /\ o.sample.y = Place(Earlier(o).x, Earlier(o).y, o.clip,
                                          ((o.t * 300) \div PS) \div PS).y]_vars

\* a clip in a later playthrough has sampled between two samples of the same
\* time and different positions
C31_Witness ==
    /\ g.out.op = "hybridPath"
    /\ g.out.source = "imported"
    /\ ZeroSpan(g.out)
    /\ Earlier(g.out).x # Later(g.out).x
    /\ g.out.sample.lo > 0
    /\ g.out.t > PS
    /\ g.out.sample.nan = {}

\* C32: no clip built without an origin is admitted and ticked: every live
\* clip that has ticked and was built from options has an origin with
\* coordinates
C32_OriginRequired ==
    \A i \in DOMAIN q.clips :
        ("origin" \in DOMAIN q.clips[i] /\ q.clips[i].elapsed > 0)
            => q.clips[i].origin.nan = {}

\* C33: a note-bound clip ignores the global shouldSustain flag: from every
\* state it can be in, a tick with the flag set and the same tick with the
\* flag clear leave the clip in the same state with the same fields, so two
\* runs that differ only in the flag give the same sequence of clip states
C33_NoteBoundIgnoresFlag ==
    \A c \in AllClips :
        c.midiNoteKey # NoKey =>
            \A dt \in InputsClip.Dts :
                update(c, dt, TRUE) = update(c, dt, FALSE)

\* a held note-bound clip is looping, and a tick with the flag clear keeps
\* it looping
C33_Witness ==
    \E i \in DOMAIN q.clips :
        /\ q.clips[i].midiNoteKey # NoKey
        /\ q.clips[i].state = SUSTAINING
        /\ q.clips[i].midiHeld
        /\ \E dt \in InputsClip.Dts :
              update(q.clips[i], dt, FALSE).state = SUSTAINING

\* C34: the first enqueue on a queue that has accepted no clip since it was
\* built or last cleared, made below the cap, is accepted whatever the queue
\* clock reads
C34_FirstEnqueueAccepted ==
    [][ (EnqueueStep /\ hLastAccepted < 0
           /\ NonTerminalCount < q.maxConcurrent)
          => ret' = TRUE ]_vars

\* C35: the live set never holds two clips in Active, Sustaining or Releasing
\* that are bound to the same note key
C35_OneClipPerKey ==
    \A i, j \in DOMAIN q.clips :
        (/\ q.clips[i].id # q.clips[j].id
         /\ q.clips[i].midiNoteKey # NoKey
         /\ q.clips[i].midiNoteKey = q.clips[j].midiNoteKey)
            => ~(/\ q.clips[i].state \in {ACTIVE, SUSTAINING, RELEASING}
                 /\ q.clips[j].state \in {ACTIVE, SUSTAINING, RELEASING})

\* the frame just taken was the 4th silent frame in a row
FourthSilentFrame == g.app._silentFrames = 3 /\ g'.app._silentFrames = 4

\* C36: when the input has been above threshold for more than 6 frames in a
\* row and then falls silent, the frame that is the 4th silent one in a row
\* calls clipQueue.releaseAll()
C36_ReleaseAllOnFourthSilentFrame ==
    [][ (FourthSilentFrame /\ g.app.hRun > 6) => g'.app.hReleaseAll ]_vars

C38_CountWithinCap == NonTerminalCount <= q.maxConcurrent

\* C38, amended: the number of live clips in Active, Sustaining or Releasing
\* grows only by an accepted enqueue, and right after an accepted enqueue it
\* is at most the current concurrency cap
C38_CountWithinCapAtAdmission ==
    [][ /\ (NonTerminalCount' > NonTerminalCount) => (EnqueueStep /\ ret')
        /\ (EnqueueStep /\ ret') => (NonTerminalCount' <= q'.maxConcurrent) ]_vars

\* an enqueue has just been accepted and filled the live set up to the cap
C38_Witness ==
    pc = "enqueued" /\ ret /\ NonTerminalCount = q.maxConcurrent

\* C39: release() on a clip that is Releasing or Complete changes nothing,
\* called directly or through a note-off for the clip's key: the state, the
\* release start time, the release start phase and the release duration
\* stay as they are; and a second release() right after a first changes
\* nothing more
C39_ReleaseIdempotent ==
    /\ \A c \in AllClips :
          /\ c.state \in {RELEASING, COMPLETE} => release(c) = c
          /\ release(release(c)) = release(c)
    /\ \A i \in DOMAIN q.clips :
          q.clips[i].state \in {RELEASING, COMPLETE}
             => releaseMidiNote(q, q.clips[i].midiNoteKey).clips[i] = q.clips[i]

\* a note-bound clip is part-way through its release tail
C39_Witness ==
    \E i \in DOMAIN q.clips :
        /\ q.clips[i].state = RELEASING
        /\ q.clips[i].midiNoteKey # NoKey
        /\ q.clips[i].elapsed > q.clips[i].releaseStart
        /\ q.clips[i].currentPathT > q.clips[i].releaseProgressStart

\* the i-th live clip entered Releasing in the step just taken
EntersReleasing(i) ==
    /\ i \in DOMAIN q.clips /\ i \in DOMAIN q'.clips
    /\ q'.clips[i].id = q.clips[i].id
    /\ q.clips[i].state # RELEASING
    /\ q'.clips[i].state = RELEASING

\* C40: when a clip enters Releasing, through release() or inside update(),
\* the release-start phase it records is the phase of its most recently
\* emitted point (update() emits one point per call, at the phase it stores
\* in _currentPathT)
C40_ReleaseStartsAtLastPoint ==
    [][ \A i \in DOMAIN q.clips :
           EntersReleasing(i)
              => q'.clips[i].releaseProgressStart = q'.clips[i].currentPathT ]_vars

====
